---- MODULE Spec2Model ----
(***************************************************************************)
(* Real-estate feasibility calculator.                                     *)
(*                                                                         *)
(* src/app.py holds the client-rendered scenario card (JavaScript): the    *)
(* helpers calcDisabledParking and computeFarCounted, the compute hook     *)
(* useScenarioCompute, the widget handlers of ScenarioCard, the CSV import *)
(* and the TestsPanel.                                                     *)
(* src/streamlit_app.py holds the server-rendered script (Python).  The    *)
(* file carries two revisions of the script one after the other in the     *)
(* same text; it is modelled as it stands: module-level statements take    *)
(* effect in file order (a name assigned twice holds the later value from  *)
(* the later assignment on), the scenario dict s has the keys the widget   *)
(* section writes, and of a function defined twice the later def is the    *)
(* one a call reaches, with the body lines that use its parameter names.   *)
(*                                                                         *)
(* Numbers: the programs compute in floating point.  The model computes    *)
(* in exact rationals [n, d] (d > 0, lowest terms).  A value carries its   *)
(* run-time type in the field t ("num", "str", "bool", "list").  Money is  *)
(* counted in thousands of baht so that every product stays inside TLC's   *)
(* integers; every money formula is linear in money, so the unit changes   *)
(* no comparison.                                                          *)
(***************************************************************************)
EXTENDS Integers, Sequences, FiniteSets, TLC

VARIABLES
    app,        \* which program this behaviour runs: "fn" | "react" | "streamlit"
    scenario,   \* app.py: the scenario object held by the card's parent (state)
    s,          \* streamlit_app.py: the scenario dict s after the widget section
    edits,      \* number of user actions taken so far
    call,       \* "fn": the pending or finished call of a helper function
    now,        \* app.py: the last reading of the clock (Date.now())
    notice,     \* what the last action showed the user: "" or a message
    template,   \* the module-level defaults as they stand: DEFAULT_SCENARIO and DEFAULT
    session     \* streamlit_app.py: st.session_state (unit_types, id_seed)

vars == <<app, scenario, s, edits, call, now, notice, template, session>>

----------------------------------------------------------------------------
(* Bounds *)

\* user actions per behaviour
MaxEdits == 2
\* largest car count handed to the disabled-parking helpers
MaxCars == 310
\* smallest car count handed to the disabled-parking helpers
MaxBelowZero == 3
\* latest clock reading
MaxClock == 1
\* longest unit list handed to the parking and green helpers
MaxUnits == 2

----------------------------------------------------------------------------
(* Exact rational arithmetic standing in for IEEE doubles *)

Abs(x) == IF x < 0 THEN -x ELSE x

RECURSIVE GCD(_, _)
GCD(a, b) == IF b = 0 THEN a ELSE GCD(b, a % b)

\* the rational n/d in lowest terms with a positive denominator
Q(n, d) ==
    IF d = 1 THEN [t |-> "num", n |-> n, d |-> 1]
    ELSE LET sgn == IF d < 0 THEN -1 ELSE 1
             g   == GCD(Abs(n), Abs(d))
         IN  [t |-> "num", n |-> (sgn * n) \div g, d |-> (sgn * d) \div g]

R(i) == [t |-> "num", n |-> i, d |-> 1]

RAdd(a, b) ==
    IF a.d = 1 /\ b.d = 1 THEN R(a.n + b.n)
    ELSE LET g == GCD(a.d, b.d)
         IN  Q(a.n * (b.d \div g) + b.n * (a.d \div g), (a.d \div g) * b.d)

RNeg(a) == [t |-> "num", n |-> -a.n, d |-> a.d]

RSub(a, b) == RAdd(a, RNeg(b))

RMul(a, b) ==
    IF a.d = 1 /\ b.d = 1 THEN R(a.n * b.n)
    ELSE LET g1 == GCD(Abs(a.n), b.d)
             g2 == GCD(Abs(b.n), a.d)
             h1 == IF g1 = 0 THEN 1 ELSE g1
             h2 == IF g2 = 0 THEN 1 ELSE g2
         IN  Q((a.n \div h1) * (b.n \div h2), (a.d \div h2) * (b.d \div h1))

\* a / b for b # 0
RDiv(a, b) == RMul(a, Q(b.d, b.n))

\* a <= b: integer parts first, then the fractional parts, so that no product
\* leaves TLC's integers
RLe(a, b) ==
    IF a.d = 1 /\ b.d = 1 THEN a.n <= b.n
    ELSE LET fa == a.n \div a.d
             fb == b.n \div b.d
         IN  IF fa # fb THEN fa < fb
             ELSE (a.n % a.d) * b.d <= (b.n % b.d) * a.d
RLt(a, b) == ~RLe(b, a)
REq(a, b) == a.n = b.n /\ a.d = b.d

RMax(a, b) == IF RLe(a, b) THEN b ELSE a
RMin(a, b) == IF RLe(a, b) THEN a ELSE b

\* Math.floor / math.floor and Math.ceil / math.ceil, as integers
RFloor(a) == a.n \div a.d
RCeil(a) == -((-a.n) \div a.d)

\* int(x) of Python: truncation toward zero
RTrunc(a) == IF a.n >= 0 THEN a.n \div a.d ELSE -((-a.n) \div a.d)

Zero == R(0)
One == R(1)
Hundred == R(100)

\* p / 100
Pct(p) == RDiv(p, Hundred)

----------------------------------------------------------------------------
(* Helpers of app.py *)

\* const clamp = (v, lo, hi) => Math.min(hi, Math.max(lo, v))
clamp(v, lo, hi) == RMin(hi, RMax(lo, v))

\* calcDisabledParking with the first breakpoint tested by < instead of <=
calcDisabledParking_lt(totalCars) ==
    IF RLe(totalCars, Zero) THEN 0
    ELSE IF RLt(totalCars, R(50)) THEN 2
    ELSE IF RLe(totalCars, Hundred) THEN 3
    ELSE LET extraHundreds == RCeil(RDiv(RSub(totalCars, Hundred), Hundred))
         IN  3 + (IF extraHundreds > 0 THEN extraHundreds ELSE 0)

\* calcDisabledParking with the results of the two middle steps exchanged
calcDisabledParking_swapped(totalCars) ==
    IF RLe(totalCars, Zero) THEN 0
    ELSE IF RLe(totalCars, R(50)) THEN 3
    ELSE IF RLe(totalCars, Hundred) THEN 2
    ELSE LET extraHundreds == RCeil(RDiv(RSub(totalCars, Hundred), Hundred))
         IN  3 + (IF extraHundreds > 0 THEN extraHundreds ELSE 0)

\* function calcDisabledParking(totalCars)
calcDisabledParking(totalCars) ==
    IF RLe(totalCars, Zero) THEN 0
    ELSE IF RLe(totalCars, R(50)) THEN 2
    ELSE IF RLe(totalCars, Hundred) THEN 3
    ELSE LET extraHundreds == RCeil(RDiv(RSub(totalCars, Hundred), Hundred))
         IN  3 + (IF extraHundreds > 0 THEN extraHundreds ELSE 0)

\* values of the other run-time types
Str(x) == [t |-> "str", str |-> x]
Bool(x) == [t |-> "bool", b |-> x]
List(x) == [t |-> "list", items |-> x]

\* truthiness of a value (the same in JavaScript and Python for these types)
Truthy(v) ==
    CASE v.t = "bool" -> v.b
      [] v.t = "str" -> v.str # ""
      [] v.t = "num" -> v.n # 0
      [] OTHER -> TRUE

\* computeFarCounted without the automated-parking legs
computeFarCounted_noAuto(mainAG, mainBG, pcAG, pcBG, paAG, paBG, countParking, countBasement) ==
    LET c1 == RAdd(mainAG, IF Truthy(countBasement) THEN mainBG ELSE Zero)
        c2 == RAdd(pcAG, IF Truthy(countBasement) THEN pcBG ELSE Zero)
    IN  IF Truthy(countParking) THEN RAdd(c1, c2) ELSE c1

\* function computeFarCounted(mainAG, mainBG, pcAG, pcBG, paAG, paBG, countParking, countBasement)
computeFarCounted(mainAG, mainBG, pcAG, pcBG, paAG, paBG, countParking, countBasement) ==
    LET c1 == RAdd(mainAG, IF Truthy(countBasement) THEN mainBG ELSE Zero)
        c2 == RAdd(pcAG, IF Truthy(countBasement) THEN pcBG ELSE Zero)
        c3 == RAdd(paAG, IF Truthy(countBasement) THEN paBG ELSE Zero)
    IN  IF Truthy(countParking) THEN RAdd(RAdd(c1, c2), c3) ELSE c1

----------------------------------------------------------------------------
(* Helpers of streamlit_app.py *)

\* def calc_disabled_parking(total_cars: int) -> int   (the later def)
calc_disabled_parking(total_cars) ==
    IF RLe(total_cars, Zero) THEN 0
    ELSE IF RLe(total_cars, R(50)) THEN 2
    ELSE IF RLe(total_cars, Hundred) THEN 3
    ELSE LET extra_hundreds == RCeil(RDiv(RSub(total_cars, Hundred), Hundred))
         IN  3 + (IF extra_hundreds > 0 THEN extra_hundreds ELSE 0)

\* def compute_far_counted(mainAG, ..., count_parking: bool, count_basement: bool)
\* (the later def: auto parking excluded)
compute_far_counted(mainAG, mainBG, pcAG, pcBG, paAG, paBG, count_parking, count_basement) ==
    LET f1 == RAdd(mainAG, IF Truthy(count_basement) THEN mainBG ELSE Zero)
        f2 == RAdd(pcAG, IF Truthy(count_basement) THEN pcBG ELSE Zero)
    IN  IF Truthy(count_parking) THEN RAdd(f1, f2) ELSE f1

----------------------------------------------------------------------------
(* Rules and default scenario of app.py *)

BUILDING_TYPES ==
    <<"Housing", "Hi-Rise", "Low-Rise", "Public Building", "Office Building", "Hotel">>

\* RULES.base.farRange
farMin == R(1)
farMax == R(10)

\* RULES.building; -1 stands for null
RULES_building ==
    [x \in {BUILDING_TYPES[i] : i \in 1..Len(BUILDING_TYPES)} |->
        CASE x = "Housing" -> [minOSR |-> 30, greenPctOfOSR |-> -1]
          [] x = "Hi-Rise" -> [minOSR |-> 10, greenPctOfOSR |-> 50]
          [] x = "Low-Rise" -> [minOSR |-> 10, greenPctOfOSR |-> 50]
          [] x = "Public Building" -> [minOSR |-> -1, greenPctOfOSR |-> -1]
          [] x = "Office Building" -> [minOSR |-> -1, greenPctOfOSR |-> -1]
          [] x = "Hotel" -> [minOSR |-> 10, greenPctOfOSR |-> 40]]

\* RULES.building[type] || {}: absent entries read as null
rule(type) ==
    IF type \in DOMAIN RULES_building THEN RULES_building[type]
    ELSE [minOSR |-> -1, greenPctOfOSR |-> -1]

\* const suggestedOSR = (type) => RULES.building[type]?.minOSR ?? 15
suggestedOSR(type) == IF rule(type).minOSR = -1 THEN 15 ELSE rule(type).minOSR

\* const suggestedGreenPct = (type) => RULES.building[type]?.greenPctOfOSR ?? 40
suggestedGreenPct(type) ==
    IF rule(type).greenPctOfOSR = -1 THEN 40 ELSE rule(type).greenPctOfOSR

DEFAULT_SCENARIO ==
    [name |-> Str("Base"),
     siteArea |-> R(8000), far |-> R(5), bType |-> Str("Housing"),
     osr |-> R(30), greenPctOfOSR |-> R(40),
     siteWidth |-> R(80), siteDepth |-> R(100),
     setbackFront |-> R(6), setbackRear |-> R(6),
     setbackSideL |-> R(3), setbackSideR |-> R(3),
     mainFloorsAG |-> R(20), mainFloorsBG |-> R(0),
     parkingConFloorsAG |-> R(3), parkingConFloorsBG |-> R(0),
     parkingAutoFloorsAG |-> R(0), parkingAutoFloorsBG |-> R(0),
     ftf |-> Q(32, 10), maxHeight |-> R(120),
     mainPlateMode |-> Str("abs"), mainPlatePct |-> R(80),
     mainFloorPlate |-> R(1500), parkingConPlate |-> R(1200),
     parkingAutoPlate |-> R(800),
     bayConv |-> R(25), circConvPct |-> R(0),
     bayAuto |-> R(16), circAutoPct |-> R(0),
     openLotArea |-> R(0), openLotBay |-> R(25), openLotCircPct |-> R(0),
     nlaPctOfCFA |-> R(70), nsaPctOfCFA |-> R(80), gfaOverCfaPct |-> R(95),
     countParkingInFAR |-> Bool(TRUE), countBasementInFAR |-> Bool(FALSE),
     costArchPerSqm |-> R(16), costStructPerSqm |-> R(22),
     costMEPPerSqm |-> R(20), costGreenPerSqm |-> Q(9, 2),
     costConventionalPerCar |-> R(125), costAutoPerCar |-> R(432),
     costOpenLotPerCar |-> R(60),
     customCosts |-> List(<<>>),
     budget |-> R(500000)]

----------------------------------------------------------------------------
(* useScenarioCompute of app.py: one operator per derived constant *)

effAreaConCar(state) == RMul(state.bayConv, RAdd(One, state.circConvPct))
effAreaAutoCar(state) == RMul(state.bayAuto, RAdd(One, state.circAutoPct))
effAreaOpenCar(state) == RMul(state.openLotBay, RAdd(One, state.openLotCircPct))

\* far taken from the scenario as stored, without the clamp
far_unclamped(state) == state.far

far(state) == clamp(state.far, farMin, farMax)
maxGFA(state) == RMul(state.siteArea, far(state))

\* buildableW without the floor at 0
buildableW_signed(state) ==
    RSub(RMax(Zero, state.siteWidth),
         RAdd(RMax(Zero, state.setbackSideL), RMax(Zero, state.setbackSideR)))

buildableW(state) ==
    RMax(Zero, RSub(RMax(Zero, state.siteWidth),
                    RAdd(RMax(Zero, state.setbackSideL), RMax(Zero, state.setbackSideR))))
buildableD(state) ==
    RMax(Zero, RSub(RMax(Zero, state.siteDepth),
                    RAdd(RMax(Zero, state.setbackFront), RMax(Zero, state.setbackRear))))
buildableArea(state) == RMul(buildableW(state), buildableD(state))

openSpaceArea(state) == RMul(Pct(state.osr), state.siteArea)
greenArea(state) == RMul(Pct(state.greenPctOfOSR), openSpaceArea(state))

mainPlateAbs(state) ==
    IF state.mainPlateMode = Str("pct")
    THEN RMax(Zero, RMin(buildableArea(state),
                         RMul(Pct(state.mainPlatePct), buildableArea(state))))
    ELSE RMax(Zero, state.mainFloorPlate)

mainCFA_AG(state) == RMul(state.mainFloorsAG, mainPlateAbs(state))
mainCFA_BG(state) == RMul(state.mainFloorsBG, mainPlateAbs(state))
parkConCFA_AG(state) == RMul(state.parkingConFloorsAG, state.parkingConPlate)
parkConCFA_BG(state) == RMul(state.parkingConFloorsBG, state.parkingConPlate)
parkAutoCFA_AG(state) == RMul(state.parkingAutoFloorsAG, state.parkingAutoPlate)
parkAutoCFA_BG(state) == RMul(state.parkingAutoFloorsBG, state.parkingAutoPlate)

mainCFA(state) == RAdd(mainCFA_AG(state), mainCFA_BG(state))
parkConCFA(state) == RAdd(parkConCFA_AG(state), parkConCFA_BG(state))
parkAutoCFA(state) == RAdd(parkAutoCFA_AG(state), parkAutoCFA_BG(state))
\* totalCFA with the open lot counted as floor area
totalCFA_withOpenLot(state) ==
    RAdd(RAdd(RAdd(mainCFA(state), parkConCFA(state)), parkAutoCFA(state)),
         state.openLotArea)

totalCFA(state) == RAdd(RAdd(mainCFA(state), parkConCFA(state)), parkAutoCFA(state))

\* estHeight with the main basement floors added to the floor count
estHeight_withBasement(state) ==
    RMul(state.ftf, RAdd(RAdd(RAdd(state.mainFloorsAG, state.parkingConFloorsAG),
                              state.parkingAutoFloorsAG), state.mainFloorsBG))

estHeight(state) ==
    RMul(state.ftf, RAdd(RAdd(state.mainFloorsAG, state.parkingConFloorsAG),
                         state.parkingAutoFloorsAG))
heightOk(state) == RLe(estHeight(state), state.maxHeight)

\* convCarsPerFloor rounded up instead of down
convCarsPerFloor_ceil(state) ==
    RCeil(RDiv(state.parkingConPlate, RMax(One, effAreaConCar(state))))

convCarsPerFloor(state) ==
    RFloor(RDiv(state.parkingConPlate, RMax(One, effAreaConCar(state))))
autoCarsPerFloor(state) ==
    RFloor(RDiv(state.parkingAutoPlate, RMax(One, effAreaAutoCar(state))))
totalConvCars(state) ==
    RMul(R(convCarsPerFloor(state)),
         RAdd(state.parkingConFloorsAG, state.parkingConFloorsBG))
totalAutoCars(state) ==
    RMul(R(autoCarsPerFloor(state)),
         RAdd(state.parkingAutoFloorsAG, state.parkingAutoFloorsBG))
\* openLotCars rounded up instead of down
openLotCars_ceil(state) ==
    RCeil(RDiv(state.openLotArea, RMax(One, effAreaOpenCar(state))))

openLotCars(state) ==
    RFloor(RDiv(state.openLotArea, RMax(One, effAreaOpenCar(state))))
totalCars(state) ==
    RAdd(RAdd(totalConvCars(state), totalAutoCars(state)), R(openLotCars(state)))
disabledCars(state) == calcDisabledParking(totalCars(state))

farCounted(state) ==
    computeFarCounted(mainCFA_AG(state), mainCFA_BG(state),
                      parkConCFA_AG(state), parkConCFA_BG(state),
                      parkAutoCFA_AG(state), parkAutoCFA_BG(state),
                      state.countParkingInFAR, state.countBasementInFAR)
\* farOk decided on the actual gfa instead of the FAR-counted area
farOk_byGfa(state) ==
    RLe(RMul(Pct(state.gfaOverCfaPct), totalCFA(state)), maxGFA(state))

farOk(state) == RLe(farCounted(state), maxGFA(state))

nla(state) == RMul(Pct(state.nlaPctOfCFA), totalCFA(state))
nsa(state) == RMul(Pct(state.nsaPctOfCFA), totalCFA(state))
gfa(state) == RMul(Pct(state.gfaOverCfaPct), totalCFA(state))

ratioNLA_CFA(state) ==
    IF RLt(Zero, totalCFA(state)) THEN RDiv(nla(state), totalCFA(state)) ELSE Zero
ratioNSA_GFA(state) ==
    IF RLt(Zero, gfa(state)) THEN RDiv(nsa(state), gfa(state)) ELSE Zero
ratioNSA_CFA(state) ==
    IF RLt(Zero, totalCFA(state)) THEN RDiv(nsa(state), totalCFA(state)) ELSE Zero
ratioNLA_GFA(state) ==
    IF RLt(Zero, gfa(state)) THEN RDiv(nla(state), gfa(state)) ELSE Zero

baseCostPerSqm(state) ==
    RAdd(RAdd(state.costArchPerSqm, state.costStructPerSqm), state.costMEPPerSqm)
constructionCost(state) == RMul(totalCFA(state), baseCostPerSqm(state))
greenCost(state) == RMul(greenArea(state), state.costGreenPerSqm)
parkingCost(state) ==
    RAdd(RAdd(RMul(totalConvCars(state), state.costConventionalPerCar),
              RMul(totalAutoCars(state), state.costAutoPerCar)),
         RMul(R(openLotCars(state)), state.costOpenLotPerCar))

\* (state.customCosts || []).reduce(...) over the first k items
RECURSIVE customCostSum(_, _, _)
customCostSum(state, items, k) ==
    IF k = 0 THEN Zero
    ELSE LET i == items[k]
             sum == customCostSum(state, items, k - 1)
         IN  IF i.kind = "per_sqm" THEN RAdd(sum, RMul(i.rate, totalCFA(state)))
             ELSE IF i.kind = "per_car_conv"
                  THEN RAdd(sum, RMul(i.rate, totalConvCars(state)))
             ELSE IF i.kind = "per_car_auto"
                  THEN RAdd(sum, RMul(i.rate, totalAutoCars(state)))
             ELSE RAdd(sum, i.rate)

customCostTotal(state) ==
    LET items == IF Truthy(state.customCosts) THEN state.customCosts.items ELSE <<>>
    IN  customCostSum(state, items, Len(items))

\* capexTotal without the green cost
capexTotal_noGreen(state) ==
    RAdd(RAdd(constructionCost(state), parkingCost(state)), customCostTotal(state))

capexTotal(state) ==
    RAdd(RAdd(RAdd(constructionCost(state), greenCost(state)), parkingCost(state)),
         customCostTotal(state))
\* budgetOk without the budget > 0 guard
budgetOk_noGuard(state) == RLe(capexTotal(state), state.budget)

budgetOk(state) ==
    IF RLt(Zero, state.budget) THEN RLe(capexTotal(state), state.budget) ELSE TRUE

osrOk(state) ==
    IF rule(state.bType.str).minOSR # -1
    THEN RLe(R(rule(state.bType.str).minOSR), state.osr) ELSE TRUE
greenPctOk(state) ==
    IF rule(state.bType.str).greenPctOfOSR # -1
    THEN RLe(R(rule(state.bType.str).greenPctOfOSR), state.greenPctOfOSR) ELSE TRUE

\* warnings with the height entry pushed before the FAR entry
warnings_heightFirst(state) ==
    (IF ~heightOk(state) THEN <<"height">> ELSE <<>>)
    \o (IF ~farOk(state) THEN <<"far">> ELSE <<>>)
    \o (IF rule(state.bType.str).minOSR # -1 /\ ~osrOk(state) THEN <<"osr">> ELSE <<>>)
    \o (IF rule(state.bType.str).greenPctOfOSR # -1 /\ ~greenPctOk(state)
        THEN <<"green">> ELSE <<>>)
    \o (IF ~budgetOk(state) THEN <<"budget">> ELSE <<>>)

\* the warnings list of ScenarioCard
warnings(state) ==
    (IF ~farOk(state) THEN <<"far">> ELSE <<>>)
    \o (IF ~heightOk(state) THEN <<"height">> ELSE <<>>)
    \o (IF rule(state.bType.str).minOSR # -1 /\ ~osrOk(state) THEN <<"osr">> ELSE <<>>)
    \o (IF rule(state.bType.str).greenPctOfOSR # -1 /\ ~greenPctOk(state)
        THEN <<"green">> ELSE <<>>)
    \o (IF ~budgetOk(state) THEN <<"budget">> ELSE <<>>)

\* warnings.length > 0 && (...): the design-check banner is rendered
bannerShown(state) == Len(warnings(state)) > 0

----------------------------------------------------------------------------
(* What the user types or picks in app.py, before the handler touches it *)

\* fields whose handler is Math.max(0, Number(e.target.value))
Max0Fields ==
    {"siteArea", "siteWidth", "siteDepth", "setbackFront", "setbackRear",
     "setbackSideL", "setbackSideR", "mainFloorsAG", "mainFloorsBG", "ftf",
     "parkingConFloorsAG", "parkingConFloorsBG", "maxHeight",
     "parkingAutoFloorsAG", "parkingAutoFloorsBG", "mainFloorPlate",
     "parkingConPlate", "parkingAutoPlate", "openLotArea", "costArchPerSqm",
     "costStructPerSqm", "costMEPPerSqm", "costGreenPerSqm",
     "costConventionalPerCar", "costAutoPerCar", "costOpenLotPerCar", "budget"}

\* fields whose handler is Math.max(1, Number(e.target.value))
Max1Fields == {"bayConv", "bayAuto", "openLotBay"}

\* fields whose handler is clamp(Number(e.target.value), 0, 100)
PctFields == {"osr", "greenPctOfOSR", "mainPlatePct"}

\* fields whose handler is clamp(Number(e.target.value), 0, 100) / 100
CircFields == {"circConvPct", "circAutoPct", "openLotCircPct"}

\* the numbers typed into each number input
Typed(f) ==
    CASE f = "siteArea" -> {R(6500), R(0)}
      [] f = "siteWidth" -> {R(4)}
      [] f = "siteDepth" -> {R(10)}
      [] f = "setbackFront" -> {R(60)}
      [] f = "setbackRear" -> {R(0)}
      [] f = "setbackSideL" -> {R(50)}
      [] f = "setbackSideR" -> {R(0)}
      [] f = "mainFloorsAG" -> {R(40), R(-1)}
      [] f = "mainFloorsBG" -> {R(2)}
      [] f = "ftf" -> {R(5)}
      [] f = "parkingConFloorsAG" -> {R(0)}
      [] f = "parkingConFloorsBG" -> {R(2), Q(5, 2)}
      [] f = "maxHeight" -> {R(10)}
      [] f = "parkingAutoFloorsAG" -> {R(2)}
      [] f = "parkingAutoFloorsBG" -> {R(1)}
      [] f = "mainFloorPlate" -> {R(1000)}
      [] f = "parkingConPlate" -> {R(100), R(0)}
      [] f = "parkingAutoPlate" -> {R(0)}
      [] f = "openLotArea" -> {Q(499, 10), R(1000)}
      [] f = "costArchPerSqm" -> {R(0)}
      [] f = "costStructPerSqm" -> {R(30)}
      [] f = "costMEPPerSqm" -> {R(0)}
      [] f = "costGreenPerSqm" -> {R(0)}
      [] f = "costConventionalPerCar" -> {R(0)}
      [] f = "costAutoPerCar" -> {R(0)}
      [] f = "costOpenLotPerCar" -> {R(0)}
      [] f = "budget" -> {R(0), Q(1, 1000), R(3000000)}
      [] f = "bayConv" -> {R(30), Q(1, 2)}
      [] f = "bayAuto" -> {R(20)}
      [] f = "openLotBay" -> {R(10)}
      [] f = "osr" -> {R(10), R(150)}
      [] f = "greenPctOfOSR" -> {R(60)}
      [] f = "mainPlatePct" -> {R(50), R(120)}
      [] f = "circConvPct" -> {R(20), R(150)}
      [] f = "circAutoPct" -> {R(20)}
      [] f = "openLotCircPct" -> {R(20)}
      [] f = "far" -> {R(4), R(50), Q(1, 2)}

\* the rates typed into a custom cost item
TypedRate == {R(1000), R(-5)}

\* the names typed into a custom cost item
TypedName == {"Permit"}

CostKinds == {"per_sqm", "per_car_conv", "per_car_auto", "lump_sum"}

----------------------------------------------------------------------------
(* TestsPanel *)

\* the list the panel renders; every entry is shown green when actual === expected
tests(state, derived) ==
    LET width == RMax(Zero, state.siteWidth)
        depth == RMax(Zero, state.siteDepth)
        sbF == RMax(Zero, state.setbackFront)
        sbR == RMax(Zero, state.setbackRear)
        sbL == RMax(Zero, state.setbackSideL)
        sbRR == RMax(Zero, state.setbackSideR)
        buildable == RMul(RMax(Zero, RSub(width, RAdd(sbL, sbRR))),
                          RMax(Zero, RSub(depth, RAdd(sbF, sbR))))
        plateAbs ==
            IF state.mainPlateMode = Str("pct")
            THEN RMax(Zero, RMin(buildable, RMul(Pct(state.mainPlatePct), buildable)))
            ELSE RMax(Zero, state.mainFloorPlate)
        mAG == RMul(state.mainFloorsAG, plateAbs)
        mBG == RMul(state.mainFloorsBG, plateAbs)
        pcAG == RMul(state.parkingConFloorsAG, state.parkingConPlate)
        pcBG == RMul(state.parkingConFloorsBG, state.parkingConPlate)
        paAG == RMul(state.parkingAutoFloorsAG, state.parkingAutoPlate)
        paBG == RMul(state.parkingAutoFloorsBG, state.parkingAutoPlate)
        farExpected == computeFarCounted(mAG, mBG, pcAG, pcBG, paAG, paBG,
                                         state.countParkingInFAR,
                                         state.countBasementInFAR)
        openLotExpectedCars ==
            RFloor(RDiv(state.openLotArea,
                        RMax(One, RMul(state.openLotBay,
                                       RAdd(One, state.openLotCircPct)))))
    IN <<[name |-> "calcDisabledParking(0)",
          actual |-> R(calcDisabledParking(R(0))), expected |-> R(0)],
         [name |-> "calcDisabledParking(50)",
          actual |-> R(calcDisabledParking(R(50))), expected |-> R(2)],
         [name |-> "calcDisabledParking(51)",
          actual |-> R(calcDisabledParking(R(51))), expected |-> R(3)],
         [name |-> "calcDisabledParking(100)",
          actual |-> R(calcDisabledParking(R(100))), expected |-> R(3)],
         [name |-> "calcDisabledParking(101)",
          actual |-> R(calcDisabledParking(R(101))), expected |-> R(4)],
         [name |-> "calcDisabledParking(250)",
          actual |-> R(calcDisabledParking(R(250))), expected |-> R(5)],
         [name |-> "computeFarCounted(default flags)",
          actual |-> derived.farCounted, expected |-> farExpected],
         [name |-> "computeFarCounted(no parking, no basement)",
          actual |-> computeFarCounted(R(100), R(20), R(30), R(40), R(50), R(60),
                                       Bool(FALSE), Bool(FALSE)),
          expected |-> R(100)],
         [name |-> "computeFarCounted(parking+basement)",
          actual |-> computeFarCounted(R(100), R(20), R(30), R(40), R(50), R(60),
                                       Bool(TRUE), Bool(TRUE)),
          expected |-> R(300)],
         [name |-> "openLot cars calc",
          actual |-> R(derived.openLotCars), expected |-> R(openLotExpectedCars)],
         [name |-> "mainPlate pct clamp <= buildable",
          actual |-> IF state.mainPlateMode = Str("pct")
                     THEN Bool(RLe(derived.mainPlateAbs, buildable))
                     ELSE Bool(TRUE),
          expected |-> Bool(TRUE)]>>

\* what ScenarioCard hands to the panel
TestsPanel(state) ==
    tests(state, [farCounted |-> farCounted(state),
                  openLotCars |-> openLotCars(state),
                  mainPlateAbs |-> mainPlateAbs(state)])

----------------------------------------------------------------------------
(* The parent of ScenarioCard *)

\* onUpdate(scenario.id, patch): the parent merges the patch into the scenario
onUpdate(state, patch) == patch @@ state

----------------------------------------------------------------------------
(* Widget handlers of ScenarioCard *)

Step == /\ app = "react"
        /\ edits < MaxEdits
        /\ edits' = edits + 1
        /\ UNCHANGED <<app, s, call, template, session>>

SetMax0(f, v) ==
    /\ Step
    /\ scenario' = onUpdate(scenario, [k \in {f} |-> RMax(Zero, v)])
    /\ UNCHANGED <<now, notice>>

SetMax1(f, v) ==
    /\ Step
    /\ scenario' = onUpdate(scenario, [k \in {f} |-> RMax(One, v)])
    /\ UNCHANGED <<now, notice>>

SetPct(f, v) ==
    /\ Step
    /\ scenario' = onUpdate(scenario, [k \in {f} |-> clamp(v, Zero, Hundred)])
    /\ UNCHANGED <<now, notice>>

SetCirc(f, v) ==
    /\ Step
    /\ scenario' = onUpdate(scenario, [k \in {f} |-> RDiv(clamp(v, Zero, Hundred), Hundred)])
    /\ UNCHANGED <<now, notice>>

SetFar(v) ==
    /\ Step
    /\ scenario' = onUpdate(scenario, [far |-> clamp(v, farMin, farMax)])
    /\ UNCHANGED <<now, notice>>

\* SelectBType leaving the green share as it was
SelectBType_keepGreen(type) ==
    /\ Step
    /\ scenario' = onUpdate(scenario,
           [bType |-> Str(type), osr |-> R(suggestedOSR(type))])
    /\ UNCHANGED <<now, notice>>

SelectBType(type) ==
    /\ Step
    /\ scenario' = onUpdate(scenario,
           [bType |-> Str(type),
            osr |-> R(suggestedOSR(type)),
            greenPctOfOSR |-> R(suggestedGreenPct(type))])
    /\ UNCHANGED <<now, notice>>

SelectMainPlateMode(mode) ==
    /\ Step
    /\ scenario' = onUpdate(scenario, [mainPlateMode |-> Str(mode)])
    /\ UNCHANGED <<now, notice>>

\* the two FAR selects: e.target.value === "true"
SelectCountParkingInFAR(value) ==
    /\ Step
    /\ scenario' = onUpdate(scenario, [countParkingInFAR |-> Bool(value = "true")])
    /\ UNCHANGED <<now, notice>>

SelectCountBasementInFAR(value) ==
    /\ Step
    /\ scenario' = onUpdate(scenario, [countBasementInFAR |-> Bool(value = "true")])
    /\ UNCHANGED <<now, notice>>

\* (scenario.customCosts || [])
customCostsOf(state) == IF Truthy(state.customCosts) THEN state.customCosts.items ELSE <<>>

\* the Add button; Date.now() reads a clock that never runs backwards
AddCustomCost(t) ==
    /\ Step
    /\ t >= now
    /\ now' = t
    /\ scenario' = onUpdate(scenario,
           [customCosts |-> List(Append(customCostsOf(scenario),
                [id |-> t, name |-> "FF&E", kind |-> "lump_sum", rate |-> R(0)]))])
    /\ UNCHANGED notice

\* items.map((x) => x.id === id ? {...x, [key]: value} : x)
mapItems(items, id, key, value) ==
    [j \in 1..Len(items) |->
        IF items[j].id = id THEN [items[j] EXCEPT ![key] = value] ELSE items[j]]

\* items.filter((x) => x.id !== id)
RECURSIVE filterItems(_, _)
filterItems(items, id) ==
    IF items = <<>> THEN <<>>
    ELSE IF Head(items).id # id
         THEN <<Head(items)>> \o filterItems(Tail(items), id)
         ELSE filterItems(Tail(items), id)

EditCustomCostName(j, name) ==
    /\ Step
    /\ j \in 1..Len(customCostsOf(scenario))
    /\ scenario' = onUpdate(scenario,
           [customCosts |-> List(mapItems(customCostsOf(scenario),
                customCostsOf(scenario)[j].id, "name", name))])
    /\ UNCHANGED <<now, notice>>

EditCustomCostKind(j, kind) ==
    /\ Step
    /\ j \in 1..Len(customCostsOf(scenario))
    /\ scenario' = onUpdate(scenario,
           [customCosts |-> List(mapItems(customCostsOf(scenario),
                customCostsOf(scenario)[j].id, "kind", kind))])
    /\ UNCHANGED <<now, notice>>

EditCustomCostRate(j, rate) ==
    /\ Step
    /\ j \in 1..Len(customCostsOf(scenario))
    /\ scenario' = onUpdate(scenario,
           [customCosts |-> List(mapItems(customCostsOf(scenario),
                customCostsOf(scenario)[j].id, "rate", rate))])
    /\ UNCHANGED <<now, notice>>

RemoveCustomCost(j) ==
    /\ Step
    /\ j \in 1..Len(customCostsOf(scenario))
    /\ scenario' = onUpdate(scenario,
           [customCosts |-> List(filterItems(customCostsOf(scenario),
                customCostsOf(scenario)[j].id))])
    /\ UNCHANGED <<now, notice>>

----------------------------------------------------------------------------
(* Text: a string is a sequence of one-character strings *)

Digits == {"0", "1", "2", "3", "4", "5", "6", "7", "8", "9"}

DigitValue(c) ==
    CASE c = "0" -> 0 [] c = "1" -> 1 [] c = "2" -> 2 [] c = "3" -> 3 [] c = "4" -> 4
      [] c = "5" -> 5 [] c = "6" -> 6 [] c = "7" -> 7 [] c = "8" -> 8 [] c = "9" -> 9

WhiteSpace == {" ", "\t", "\n", "\r"}

\* the characters joined into one string
RECURSIVE JoinChars(_)
JoinChars(cs) == IF cs = <<>> THEN "" ELSE Head(cs) \o JoinChars(Tail(cs))

\* cs.slice(a, b), 0-based, b exclusive
Slice(cs, a, b) == SubSeq(cs, a + 1, b)

\* cs.indexOf(c): 0-based, -1 when absent
IndexOf(cs, c) ==
    IF \E i \in 1..Len(cs) : cs[i] = c
    THEN (CHOOSE i \in 1..Len(cs) : cs[i] = c /\ \A j \in 1..(i - 1) : cs[j] # c) - 1
    ELSE -1

\* cs.trim() / cs.strip()
RECURSIVE TrimLeft(_)
TrimLeft(cs) ==
    IF cs # <<>> /\ Head(cs) \in WhiteSpace THEN TrimLeft(Tail(cs)) ELSE cs
RECURSIVE TrimRight(_)
TrimRight(cs) ==
    IF cs # <<>> /\ cs[Len(cs)] \in WhiteSpace
    THEN TrimRight(SubSeq(cs, 1, Len(cs) - 1)) ELSE cs
Trim(cs) == TrimRight(TrimLeft(cs))

AllDigits(cs) == cs # <<>> /\ \A i \in 1..Len(cs) : cs[i] \in Digits

\* the value of a digit string
RECURSIVE DigitsValue(_)
DigitsValue(cs) ==
    IF cs = <<>> THEN 0
    ELSE 10 * DigitsValue(SubSeq(cs, 1, Len(cs) - 1)) + DigitValue(cs[Len(cs)])

RECURSIVE Pow10(_)
Pow10(k) == IF k = 0 THEN 1 ELSE 10 * Pow10(k - 1)

\* the value of an unsigned decimal: digits, or digits "." digits (either side may
\* be empty for Python's float)
UnsignedValue(cs) ==
    LET dot == IndexOf(cs, ".")
        ip  == IF dot < 0 THEN cs ELSE Slice(cs, 0, dot)
        fp  == IF dot < 0 THEN <<>> ELSE Slice(cs, dot + 1, Len(cs))
    IN  RAdd(R(DigitsValue(ip)), Q(DigitsValue(fp), Pow10(Len(fp))))

\* the pieces of cs between the occurrences of sep
RECURSIVE SplitSeq(_, _)
SplitSeq(cs, sep) ==
    LET hits == {i \in 1..(Len(cs) - Len(sep) + 1) : SubSeq(cs, i, i + Len(sep) - 1) = sep}
    IN  IF hits = {} THEN <<cs>>
        ELSE LET i == CHOOSE h \in hits : \A g \in hits : h <= g
             IN  <<SubSeq(cs, 1, i - 1)>>
                 \o SplitSeq(SubSeq(cs, i + Len(sep), Len(cs)), sep)

\* text.split(/\r?\n/): the lines of the text cur \o cs, line ends dropped
SplitLines(cs, cur) ==
    LET parts == SplitSeq(cur \o cs, <<"\n">>)
    IN  [j \in 1..Len(parts) |->
            IF j < Len(parts) /\ parts[j] # <<>> /\ parts[j][Len(parts[j])] = "\r"
            THEN SubSeq(parts[j], 1, Len(parts[j]) - 1) ELSE parts[j]]

----------------------------------------------------------------------------
(* handleImportCSV of app.py *)

\* v.match(/^[-+]?\d+(\.\d+)?$/)
MatchesNumber(v) ==
    LET u   == IF v # <<>> /\ Head(v) \in {"-", "+"} THEN Tail(v) ELSE v
        dot == IndexOf(u, ".")
    IN  IF dot < 0 THEN AllDigits(u)
        ELSE AllDigits(Slice(u, 0, dot)) /\ AllDigits(Slice(u, dot + 1, Len(u)))

\* Number(v) for a v that matches
NumberOf(v) ==
    IF Head(v) = "-" THEN RNeg(UnsignedValue(Tail(v)))
    ELSE IF Head(v) = "+" THEN UnsignedValue(Tail(v))
    ELSE UnsignedValue(v)

\* /^\s*[\{\[]/.test(v)
LooksLikeJSON(v) == TrimLeft(v) # <<>> /\ Head(TrimLeft(v)) \in {"{", "["}

\* the fields that hold money; the model keeps them in thousands of baht
MoneyFields ==
    {"costArchPerSqm", "costStructPerSqm", "costMEPPerSqm", "costGreenPerSqm",
     "costConventionalPerCar", "costAutoPerCar", "costOpenLotPerCar", "budget"}

\* Number(v) of a money cell, in thousands: the decimal point read three places left
ThousandsOf(v) ==
    LET neg == v # <<>> /\ Head(v) = "-"
        u   == IF v # <<>> /\ Head(v) \in {"-", "+"} THEN Tail(v) ELSE v
        dot == IndexOf(u, ".")
        ip  == IF dot < 0 THEN u ELSE Slice(u, 0, dot)
        fp  == IF dot < 0 THEN <<>> ELSE Slice(u, dot + 1, Len(u))
        cut == IF Len(ip) > 3 THEN Len(ip) - 3 ELSE 0
        val == RAdd(RAdd(R(DigitsValue(SubSeq(ip, 1, cut))),
                         Q(DigitsValue(SubSeq(ip, cut + 1, Len(ip))), 1000)),
                    Q(DigitsValue(fp), 1000 * Pow10(Len(fp))))
    IN  IF neg THEN RNeg(val) ELSE val

\* a JSON string literal without escapes: the text between its quotes
Unquote(cs) ==
    IF Len(cs) >= 2 /\ Head(cs) = "\"" /\ cs[Len(cs)] = "\""
       /\ \A i \in 2..(Len(cs) - 1) : cs[i] \notin {"\"", "\\"}
    THEN [ok |-> TRUE, str |-> JoinChars(SubSeq(cs, 2, Len(cs) - 1))]
    ELSE [ok |-> FALSE, str |-> ""]

\* one member "key":value of a custom cost object
memberOf(cs) ==
    LET idx == IndexOf(cs, ":")
        key == IF idx < 0 THEN [ok |-> FALSE, str |-> ""] ELSE Unquote(Slice(cs, 0, idx))
        val == IF idx < 0 THEN <<>> ELSE Slice(cs, idx + 1, Len(cs))
    IN  [ok |-> key.ok /\ (IF key.str \in {"id", "rate"} THEN MatchesNumber(val)
                           ELSE Unquote(val).ok),
         key |-> key.str, val |-> val]

\* one object {"id":..,"name":..,"kind":..,"rate":..}
objectOf(cs) ==
    LET ms == SplitSeq(cs, <<",">>)
        m  == [j \in 1..Len(ms) |-> memberOf(ms[j])]
        at(k) == CHOOSE j \in 1..Len(ms) : m[j].key = k
        good == /\ Len(ms) = 4
                /\ \A j \in 1..4 : m[j].ok
                /\ {m[j].key : j \in 1..4} = {"id", "name", "kind", "rate"}
    IN  [ok |-> good,
         item |-> IF good
                  THEN [id |-> NumberOf(m[at("id")].val).n,
                        name |-> Unquote(m[at("name")].val).str,
                        kind |-> Unquote(m[at("kind")].val).str,
                        rate |-> ThousandsOf(m[at("rate")].val)]
                  ELSE [id |-> 0, name |-> "", kind |-> "", rate |-> Zero]]

\* JSON.parse(v): [ok, value].  Parsed are the documents that occur as a customCosts
\* cell: the empty array, and an array of objects with the members id, name, kind
\* and rate written without white space or escapes; any other text is taken to make
\* JSON.parse throw.
JSON_parse(v) ==
    LET u == Trim(v)
    IN  IF u = <<"[", "]">> THEN [ok |-> TRUE, value |-> List(<<>>)]
        ELSE IF Len(u) >= 4 /\ SubSeq(u, 1, 2) = <<"[", "{">>
                /\ SubSeq(u, Len(u) - 1, Len(u)) = <<"}", "]">>
             THEN LET os == SplitSeq(SubSeq(u, 3, Len(u) - 2), <<"}", ",", "{">>)
                      o  == [j \in 1..Len(os) |-> objectOf(os[j])]
                  IN  IF \A j \in 1..Len(os) : o[j].ok
                      THEN [ok |-> TRUE, value |-> List([j \in 1..Len(os) |-> o[j].item])]
                      ELSE [ok |-> FALSE, value |-> List(<<>>)]
        ELSE [ok |-> FALSE, value |-> List(<<>>)]

\* the value parsed from a Value cell
parsedCell(v) ==
    IF LooksLikeJSON(v)
    THEN IF JSON_parse(v).ok THEN JSON_parse(v).value ELSE Str(JoinChars(v))
    ELSE IF MatchesNumber(v) THEN NumberOf(v) ELSE Str(JoinChars(v))

\* parsedCell for the cell of field k, a number of a money field in thousands
parsedField(k, v) ==
    IF k \in MoneyFields /\ ~LooksLikeJSON(v) /\ MatchesNumber(v)
    THEN ThousandsOf(v) ELSE parsedCell(v)

\* lines.slice(1).map(...).filter(Boolean): the [k, parsed] entries of the data lines
RECURSIVE entriesOf(_)
entriesOf(lines) ==
    IF lines = <<>> THEN <<>>
    ELSE LET line == Head(lines)
             idx  == IndexOf(line, ",")
         IN  IF idx < 0 THEN entriesOf(Tail(lines))
             ELSE <<[k |-> JoinChars(Trim(Slice(line, 0, idx))),
                     parsed |-> parsedField(JoinChars(Trim(Slice(line, 0, idx))),
                                            Trim(Slice(line, idx + 1, Len(line))))]>>
                  \o entriesOf(Tail(lines))

\* filter(Boolean) on the lines: empty lines dropped
RECURSIVE nonEmpty(_)
nonEmpty(lines) ==
    IF lines = <<>> THEN <<>>
    ELSE IF Head(lines) = <<>> THEN nonEmpty(Tail(lines))
         ELSE <<Head(lines)>> \o nonEmpty(Tail(lines))

\* Object.fromEntries(entries): the last entry of a key wins
fromEntries(entries) ==
    [k \in {entries[i].k : i \in 1..Len(entries)} |->
        LET last == CHOOSE i \in 1..Len(entries) :
                        entries[i].k = k /\ \A j \in (i + 1)..Len(entries) : entries[j].k # k
        IN  entries[last].parsed]

\* the patch handleImportCSV builds from the text of a file
importPatch(text) ==
    LET lines == nonEmpty(SplitLines(text, <<>>))
    IN  fromEntries(entriesOf(IF lines = <<>> THEN <<>> ELSE Tail(lines)))

(* The files the user picks *)

\* far 50
CsvFar ==
    <<"F", "i", "e", "l", "d", ",", "V", "a", "l", "u", "e", "\n", "f", "a", "r", ",",
      "5", "0", "\n">>

\* the ratio-mode percentages
CsvRatios ==
    <<"F", "i", "e", "l", "d", ",", "V", "a", "l", "u", "e", "\n", "n", "s", "a", "P",
      "c", "t", "O", "f", "C", "F", "A", ",", "9", "0", "\n", "g", "f", "a", "O", "v",
      "e", "r", "C", "f", "a", "P", "c", "t", ",", "5", "0", "\n">>

\* far 0.5 on an empty site
CsvSmallFar ==
    <<"F", "i", "e", "l", "d", ",", "V", "a", "l", "u", "e", "\n", "f", "a", "r", ",",
      "0", ".", "5", "\n", "s", "i", "t", "e", "A", "r", "e", "a", ",", "0", "\n">>

\* the two FAR flags written as text
CsvFlags ==
    <<"F", "i", "e", "l", "d", ",", "V", "a", "l", "u", "e", "\n", "c", "o", "u", "n",
      "t", "B", "a", "s", "e", "m", "e", "n", "t", "I", "n", "F", "A", "R", ",", "f",
      "a", "l", "s", "e", "\n", "c", "o", "u", "n", "t", "P", "a", "r", "k", "i", "n",
      "g", "I", "n", "F", "A", "R", ",", "f", "a", "l", "s", "e">>

\* CRLF line ends, an unknown field, a line without a comma, padded cells
CsvForeign ==
    <<"F", "i", "e", "l", "d", ",", "V", "a", "l", "u", "e", "\r", "\n", "f", "o", "o",
      ",", "1", "\r", "\n", "b", "r", "o", "k", "e", "n", "\r", "\n", "n", "l", "a",
      "P", "c", "t", "O", "f", "C", "F", "A", ",", " ", "1", "0", "0", " ", "\r", "\n">>

\* a text field
CsvName ==
    <<"F", "i", "e", "l", "d", ",", "V", "a", "l", "u", "e", "\n", "n", "a", "m", "e",
      ",", "T", "o", "w", "e", "r", " ", "B", "\n", "b", "u", "d", "g", "e", "t", ",",
      "+", "1", "\n">>

\* no Field,Value header, and a cell that opens a JSON object it never closes
CsvBad ==
    <<"s", "i", "t", "e", "A", "r", "e", "a", ",", "9", "0", "0", "0", "\n", "n", "o",
      "t", "e", "s", ",", "{", "o", "o", "p", "s", "\n">>

ImportFiles == {CsvFar, CsvRatios, CsvSmallFar, CsvFlags, CsvForeign, CsvName, CsvBad}

\* the Import CSV input: reader.onload runs to completion
\* the patch of each file the user may pick
patchOf == [text \in ImportFiles |-> importPatch(text)]

ImportCSV(text) ==
    /\ Step
    /\ scenario' = onUpdate(scenario, patchOf[text])
    /\ UNCHANGED <<now, notice>>

----------------------------------------------------------------------------
(* handleExportCSV and createCSV of app.py *)

DigitSeq == <<"0", "1", "2", "3", "4", "5", "6", "7", "8", "9">>

\* the decimal digits of a natural number
RECURSIVE DigitChars(_)
DigitChars(n) ==
    IF n < 10 THEN <<DigitSeq[n + 1]>>
    ELSE DigitChars(n \div 10) \o <<DigitSeq[(n % 10) + 1]>>

\* the digits after the point of r / d (r < d), at most k of them
RECURSIVE FracChars(_, _, _)
FracChars(r, d, k) ==
    IF r = 0 \/ k = 0 THEN <<>>
    ELSE <<DigitSeq[((r * 10) \div d) + 1]>> \o FracChars((r * 10) % d, d, k - 1)

\* String(x) of a number x
NumberChars(x) ==
    LET a == Abs(x.n)
    IN  (IF x.n < 0 THEN <<"-">> ELSE <<>>)
        \o DigitChars(a \div x.d)
        \o (IF a % x.d = 0 THEN <<>> ELSE <<".">> \o FracChars(a % x.d, x.d, 17))

\* String(x) of a money amount x kept in thousands: the digits of 1000 * x
MoneyChars(x) ==
    LET a  == Abs(x.n)
        hi == a \div x.d
        lo == ((a % x.d) * 1000) \div x.d
        r  == ((a % x.d) * 1000) % x.d
    IN  (IF x.n < 0 THEN <<"-">> ELSE <<>>)
        \o (IF hi = 0 THEN DigitChars(lo)
            ELSE DigitChars(hi) \o <<DigitSeq[(lo \div 100) + 1],
                                      DigitSeq[((lo \div 10) % 10) + 1],
                                      DigitSeq[(lo % 10) + 1]>>)
        \o (IF r = 0 THEN <<>> ELSE <<".">> \o FracChars(r, x.d, 17))

\* the characters of a string
Chars(str) == [i \in 1..Len(str) |-> SubSeq(str, i, i)]

\* a sequence of texts joined with sep between them
RECURSIVE JoinWith(_, _)
JoinWith(texts, sep) ==
    IF texts = <<>> THEN <<>>
    ELSE IF Len(texts) = 1 THEN texts[1]
    ELSE texts[1] \o sep \o JoinWith(Tail(texts), sep)

\* JSON.stringify of the customCosts array
JSON_stringify(items) ==
    <<"[">>
    \o JoinWith([j \in 1..Len(items) |->
                    Chars("{\"id\":") \o NumberChars(R(items[j].id))
                    \o Chars(",\"name\":\"") \o Chars(items[j].name)
                    \o Chars("\",\"kind\":\"") \o Chars(items[j].kind)
                    \o Chars("\",\"rate\":") \o MoneyChars(items[j].rate)
                    \o <<"}">>],
                <<",">>)
    \o <<"]">>

\* the Value cell of field k: JSON.stringify for an object, else the value as join
\* writes it
valueText(k, v) ==
    CASE v.t = "num" -> IF k \in MoneyFields THEN MoneyChars(v) ELSE NumberChars(v)
      [] v.t = "str" -> Chars(v.str)
      [] v.t = "bool" -> IF v.b THEN Chars("true") ELSE Chars("false")
      [] v.t = "list" -> JSON_stringify(v.items)

\* the elements of a finite set in some order
RECURSIVE SetToSeq(_)
SetToSeq(S) ==
    IF S = {} THEN <<>>
    ELSE LET x == CHOOSE y \in S : TRUE IN <<x>> \o SetToSeq(S \ {x})

\* createCSV(rows): the header line and one line per row, joined by "\n"
createCSV(rows) ==
    IF rows = <<>> THEN <<>>
    ELSE JoinWith(<<Chars("Field,Value")>>
                  \o [j \in 1..Len(rows) |-> rows[j].Field \o <<",">> \o rows[j].Value],
                  <<"\n">>)

\* the text handleExportCSV hands to the download: one row per field other than id
handleExportCSV(state) ==
    LET keys == SetToSeq((DOMAIN state) \ {"id"})
    IN  createCSV([j \in 1..Len(keys) |->
                      [Field |-> Chars(keys[j]), Value |-> valueText(keys[j], state[keys[j]])]])

----------------------------------------------------------------------------
(* streamlit_app.py: defaults *)

\* DEFAULT: the later dict, and from the earlier one the keys only it has
DEFAULT ==
    [name |-> Str("Scenario A"), location |-> Str("BKK"),
     gfaOverCfaPct |-> R(95), greenOnGround |-> R(0), greenOnStructure |-> R(0),
     siteArea |-> R(8000), far |-> R(5), bType |-> Str("Housing"),
     osr |-> R(30), greenPctOfOSR |-> R(40),
     mainFloorsAG |-> R(20), mainFloorsBG |-> R(0),
     parkingConFloorsAG |-> R(3), parkingConFloorsBG |-> R(0),
     parkingAutoFloorsAG |-> R(0), parkingAutoFloorsBG |-> R(0),
     ftf |-> Q(32, 10), maxHeight |-> R(120),
     mainFloorPlate |-> R(1500), parkingConPlate |-> R(1200),
     parkingAutoPlate |-> R(800),
     bayConv |-> R(25), circConvPct |-> R(0),
     bayAuto |-> R(16), circAutoPct |-> R(0),
     openLotArea |-> R(0), openLotBay |-> R(25), openLotCircPct |-> R(0),
     publicPctOfGFA |-> R(10), nlaPctOfPublic |-> R(40),
     bohPctOfGFA |-> R(8), servicePctOfGFA |-> R(2),
     countParkingInFAR |-> Bool(TRUE), countBasementInFAR |-> Bool(FALSE),
     costMainPerSqm |-> R(30), costParkConvPerSqm |-> R(18),
     costParkAutoPerSqm |-> R(25), costGreenPerSqm |-> Q(9, 2),
     costConventionalPerCar |-> R(125), costAutoPerCar |-> R(432),
     costOpenLotPerCar |-> R(60),
     budget |-> R(500000),
     customCosts |-> List(<<>>)]

\* RULES["base"]["farRange"]
py_farRange == <<R(1), R(10)>>

----------------------------------------------------------------------------
(* streamlit_app.py: the compute section, in file order *)

\* far = clamp(s["far"], *RULES["base"]["farRange"])
py_far(d) == clamp(d.far, py_farRange[1], py_farRange[2])
\* maxGFA = s["siteArea"] * far: the first assignment
py_maxGFA_first(d) == RMul(d.siteArea, py_far(d))

py_eff_con(d) == RMul(d.bayConv, RAdd(One, d.circConvPct))
py_eff_auto(d) == RMul(d.bayAuto, RAdd(One, d.circAutoPct))
py_eff_open(d) == RMul(d.openLotBay, RAdd(One, d.openLotCircPct))

py_mainCFA_AG(d) == RMul(d.mainFloorsAG, d.mainFloorPlate)
py_mainCFA_BG(d) == RMul(d.mainFloorsBG, d.mainFloorPlate)
py_pcCFA_AG(d) == RMul(d.parkingConFloorsAG, d.parkingConPlate)
py_pcCFA_BG(d) == RMul(d.parkingConFloorsBG, d.parkingConPlate)
py_paCFA_AG(d) == RMul(d.parkingAutoFloorsAG, d.parkingAutoPlate)
py_paCFA_BG(d) == RMul(d.parkingAutoFloorsBG, d.parkingAutoPlate)

py_mainCFA(d) == RAdd(py_mainCFA_AG(d), py_mainCFA_BG(d))
py_parkConCFA(d) == RAdd(py_pcCFA_AG(d), py_pcCFA_BG(d))
py_parkAutoCFA(d) == RAdd(py_paCFA_AG(d), py_paCFA_BG(d))
py_totalCFA(d) == RAdd(RAdd(py_mainCFA(d), py_parkConCFA(d)), py_parkAutoCFA(d))

py_estHeight(d) ==
    RMul(d.ftf, RAdd(RAdd(d.mainFloorsAG, d.parkingConFloorsAG), d.parkingAutoFloorsAG))
py_heightOk(d) == RLe(py_estHeight(d), d.maxHeight)

\* the later assignments of the two per-floor counts
py_convCarsPerFloor(d) ==
    IF RLt(Zero, d.parkingConPlate)
    THEN RFloor(RDiv(d.parkingConPlate, RMax(One, py_eff_con(d)))) ELSE 0
py_autoCarsPerFloor(d) ==
    IF RLt(Zero, d.parkingAutoPlate)
    THEN RFloor(RDiv(d.parkingAutoPlate, RMax(One, py_eff_auto(d)))) ELSE 0
py_totalConvCars(d) ==
    py_convCarsPerFloor(d) * RTrunc(RAdd(d.parkingConFloorsAG, d.parkingConFloorsBG))
py_totalAutoCars(d) ==
    py_autoCarsPerFloor(d) * RTrunc(RAdd(d.parkingAutoFloorsAG, d.parkingAutoFloorsBG))
py_openLotCars(d) == RFloor(RDiv(d.openLotArea, RMax(One, py_eff_open(d))))
py_totalCars(d) == py_totalConvCars(d) + py_totalAutoCars(d) + py_openLotCars(d)
py_disabledCars(d) == calc_disabled_parking(R(py_totalCars(d)))

\* gfa = mainCFA + parkConCFA: the first assignment of gfa
py_gfa_first(d) == RAdd(py_mainCFA(d), py_parkConCFA(d))

\* maxGFA = s["siteArea"] * s["far"]: the value maxGFA holds from here on
py_maxGFA(d) == RMul(d.siteArea, d.far)

py_farCounted(d) ==
    compute_far_counted(py_mainCFA_AG(d), py_mainCFA_BG(d), py_pcCFA_AG(d), py_pcCFA_BG(d),
                        py_paCFA_AG(d), py_paCFA_BG(d),
                        d.countParkingInFAR, d.countBasementInFAR)
py_farOk(d) == RLe(py_farCounted(d), py_maxGFA(d))

\* gfa = (s["gfaOverCfaPct"] / 100.0) * totalCFA: the value gfa holds from here on
py_gfa(d) == RMul(Pct(d.gfaOverCfaPct), py_totalCFA(d))
publicArea(d) == RMul(Pct(d.publicPctOfGFA), py_gfa(d))
bohArea(d) == RMul(Pct(d.bohPctOfGFA), py_gfa(d))
serviceArea(d) == RMul(Pct(d.servicePctOfGFA), py_gfa(d))
py_nsa(d) == RSub(py_gfa(d), RAdd(RAdd(publicArea(d), bohArea(d)), serviceArea(d)))
py_nla(d) == RMul(publicArea(d), Pct(d.nlaPctOfPublic))

de_NSA_over_GFA(d) == IF RLt(Zero, py_gfa(d)) THEN RDiv(py_nsa(d), py_gfa(d)) ELSE Zero
de_NSA_over_CFA(d) ==
    IF RLt(Zero, py_totalCFA(d)) THEN RDiv(py_nsa(d), py_totalCFA(d)) ELSE Zero
de_GFA_over_CFA(d) ==
    IF RLt(Zero, py_totalCFA(d)) THEN RDiv(py_gfa(d), py_totalCFA(d)) ELSE Zero
de_NLA_over_GFA(d) == IF RLt(Zero, py_gfa(d)) THEN RDiv(py_nla(d), py_gfa(d)) ELSE Zero

costMain(d) == RMul(py_mainCFA(d), d.costMainPerSqm)
costParkConv(d) == RMul(py_parkConCFA(d), d.costParkConvPerSqm)
costParkAuto(d) == RMul(py_parkAutoCFA(d), d.costParkAutoPerSqm)
projectCost(d) == RAdd(RAdd(costMain(d), costParkConv(d)), costParkAuto(d))
py_budgetOk(d) == IF RLt(Zero, d.budget) THEN RLe(projectCost(d), d.budget) ELSE TRUE

\* the gfa argument of the call legal_parking_th(s["location"], unit_types, gfa)
legal_gfa(d) == py_gfa(d)

----------------------------------------------------------------------------
(* streamlit_app.py: the widget section *)

\* the number inputs: [lo, hi] of the widget, hi = -1 when it has no max_value
py_bounds(f) ==
    CASE f = "far" -> [lo |-> R(1), hi |-> R(10)]
      [] f \in {"bayConv", "bayAuto", "openLotBay"} -> [lo |-> R(1), hi |-> R(-1)]
      [] f \in {"osr", "greenPctOfOSR", "gfaOverCfaPct", "publicPctOfGFA",
                "nlaPctOfPublic", "bohPctOfGFA", "servicePctOfGFA",
                "circConvPct", "circAutoPct", "openLotCircPct"}
           -> [lo |-> R(0), hi |-> R(100)]
      [] OTHER -> [lo |-> R(0), hi |-> R(-1)]

\* the fields shown as a percentage and stored as a fraction
py_CircFields == {"circConvPct", "circAutoPct", "openLotCircPct"}

py_NumberFields ==
    {"siteArea", "far", "osr", "greenPctOfOSR",
     "mainFloorsAG", "mainFloorsBG", "parkingConFloorsAG", "parkingConFloorsBG",
     "parkingAutoFloorsAG", "parkingAutoFloorsBG", "ftf", "maxHeight",
     "mainFloorPlate", "parkingConPlate", "parkingAutoPlate",
     "bayConv", "circConvPct", "bayAuto", "circAutoPct",
     "openLotArea", "openLotBay", "openLotCircPct",
     "gfaOverCfaPct", "publicPctOfGFA", "nlaPctOfPublic", "bohPctOfGFA",
     "servicePctOfGFA",
     "costMainPerSqm", "costParkConvPerSqm", "costParkAutoPerSqm", "costGreenPerSqm",
     "costConventionalPerCar", "costAutoPerCar", "costOpenLotPerCar", "budget"}

\* st.number_input accepts a value inside [min_value, max_value] and raises otherwise
py_inBounds(f, v) ==
    /\ RLe(py_bounds(f).lo, v)
    /\ (py_bounds(f).hi = R(-1) \/ RLe(v, py_bounds(f).hi))

\* what the user enters into each number input (a percentage for the fraction fields)
py_Typed(f) ==
    CASE f = "siteArea" -> {R(6500), R(0)}
      [] f = "far" -> {R(4), R(10)}
      [] f = "mainFloorsAG" -> {R(40)}
      [] f = "mainFloorsBG" -> {R(2)}
      [] f = "parkingConFloorsAG" -> {R(0)}
      [] f = "parkingConFloorsBG" -> {Q(5, 2)}
      [] f = "parkingAutoFloorsAG" -> {R(2)}
      [] f = "parkingAutoFloorsBG" -> {R(1)}
      [] f = "ftf" -> {R(5)}
      [] f = "maxHeight" -> {R(10)}
      [] f = "mainFloorPlate" -> {R(1000)}
      [] f = "parkingConPlate" -> {R(100), R(0)}
      [] f = "parkingAutoPlate" -> {R(0)}
      [] f = "openLotArea" -> {Q(499, 10), R(1000)}
      [] f = "budget" -> {R(0), Q(1, 1000), R(3000000)}
      [] f = "bayConv" -> {R(30)}
      [] f = "bayAuto" -> {R(20)}
      [] f = "openLotBay" -> {R(10)}
      [] f = "osr" -> {R(10)}
      [] f = "greenPctOfOSR" -> {R(60)}
      [] f = "gfaOverCfaPct" -> {R(100), R(0)}
      [] f = "publicPctOfGFA" -> {R(100), R(0)}
      [] f = "nlaPctOfPublic" -> {R(100)}
      [] f = "bohPctOfGFA" -> {R(100)}
      [] f = "servicePctOfGFA" -> {R(0)}
      [] f \in py_CircFields -> {R(20)}
      [] f = "costMainPerSqm" -> {R(0)}
      [] f = "costParkConvPerSqm" -> {R(0)}
      [] f = "costParkAutoPerSqm" -> {R(30)}
      [] OTHER -> {R(0)}

py_Step == /\ app = "streamlit"
           /\ edits < MaxEdits
           /\ edits' = edits + 1
           /\ UNCHANGED <<app, scenario, call, now>>

\* with DEFAULT itself in place of a copy, a write to the scenario is a write to DEFAULT
scenario_is_DEFAULT_noCopy == TRUE

\* scenario = DEFAULT.copy(): the dict the widgets write to is a new one
scenario_is_DEFAULT == FALSE

\* the writes s[...] = ... of the widget section, as DEFAULT sees them
py_DEFAULT_written ==
    template' = [template EXCEPT !.DEFAULT = IF scenario_is_DEFAULT THEN s' ELSE @]

py_written ==
    /\ py_DEFAULT_written
    /\ UNCHANGED session

\* s[f] = st.number_input(...): the user enters v
py_number_input(f, v) ==
    /\ py_Step
    /\ notice # "exception"
    /\ py_inBounds(f, v)
    /\ s' = [s EXCEPT ![f] = IF f \in py_CircFields THEN RDiv(v, Hundred) ELSE v]
    /\ notice' = ""
    /\ py_written

\* the selectboxes
py_select_bType(type) ==
    /\ py_Step
    /\ notice # "exception"
    /\ s' = [s EXCEPT !.bType = Str(type)]
    /\ notice' = ""
    /\ py_written

py_select_location(loc) ==
    /\ py_Step
    /\ notice # "exception"
    /\ s' = [s EXCEPT !.location = Str(loc)]
    /\ notice' = ""
    /\ py_written

\* ... == "Yes"
py_select_countParkingInFAR(choice) ==
    /\ py_Step
    /\ notice # "exception"
    /\ s' = [s EXCEPT !.countParkingInFAR = Bool(choice = "Yes")]
    /\ notice' = ""
    /\ py_written

py_select_countBasementInFAR(choice) ==
    /\ py_Step
    /\ notice # "exception"
    /\ s' = [s EXCEPT !.countBasementInFAR = Bool(choice = "Yes")]
    /\ notice' = ""
    /\ py_written

----------------------------------------------------------------------------
(* streamlit_app.py: CSV import *)

\* cs.replace(c, "", 1): the first c removed
removeFirst(cs, c) ==
    LET i == IndexOf(cs, c)
    IN  IF i < 0 THEN cs ELSE Slice(cs, 0, i) \o Slice(cs, i + 1, Len(cs))

\* float(v) on a text of signs, digits and points: [ok, value]; ok = FALSE is ValueError
py_float(v) ==
    LET u    == Trim(v)
        body == IF u # <<>> /\ Head(u) \in {"-", "+"} THEN Tail(u) ELSE u
        good == /\ AllDigits(removeFirst(body, "."))
        val  == IF good THEN UnsignedValue(body) ELSE Zero
    IN  [ok |-> good,
         value |-> IF u # <<>> /\ Head(u) = "-" THEN RNeg(val) ELSE val]

\* vv of parse_csv_to_dict for the cell v
py_cell(v) ==
    IF AllDigits(removeFirst(removeFirst(v, "."), "-")) /\ py_float(v).ok
    THEN py_float(v).value
    ELSE Str(JoinChars(v))

\* the rows after the header that hold a comma, as [k, v] with v the stripped cell text
RECURSIVE py_rows(_)
py_rows(lines) ==
    IF lines = <<>> THEN <<>>
    ELSE LET line == Head(lines)
             idx  == IndexOf(line, ",")
         IN  IF idx < 0 THEN py_rows(Tail(lines))
             ELSE <<[k |-> JoinChars(Trim(Slice(line, 0, idx))),
                     v |-> Trim(Slice(line, idx + 1, Len(line)))]>>
                  \o py_rows(Tail(lines))

\* rows = [r for r in text.splitlines() if r.strip()]
RECURSIVE nonBlank(_)
nonBlank(lines) ==
    IF lines = <<>> THEN <<>>
    ELSE IF Trim(Head(lines)) = <<>> THEN nonBlank(Tail(lines))
         ELSE <<Head(lines)>> \o nonBlank(Tail(lines))

\* parse_csv_to_dict(text), each key with the cell text of its last row
parse_csv_to_dict(text) ==
    LET rows == nonBlank(SplitLines(text, <<>>))
        kv   == py_rows(IF rows = <<>> THEN <<>> ELSE Tail(rows))
    IN  [k \in {kv[i].k : i \in 1..Len(kv)} |->
            LET last == CHOOSE i \in 1..Len(kv) :
                            kv[i].k = k /\ \A j \in (i + 1)..Len(kv) : kv[j].k # k
            IN  kv[last].v]

\* float(s[f]) in the widget call of a number field, for the imported cell text v
py_widget_float(v) ==
    IF py_cell(v).t = "num" THEN [ok |-> TRUE, value |-> py_cell(v)] ELSE py_float(v)

\* the run of the widget section raises on the imported cell of number field f
py_raises(f, v) ==
    \/ ~py_widget_float(v).ok
    \/ ~py_inBounds(f, IF f \in py_CircFields
                       THEN RMul(py_widget_float(v).value, Hundred)
                       ELSE py_widget_float(v).value)

\* the value s[k] holds after the widget section when the import supplied cell v
py_after_widgets(k, v) ==
    IF k \in py_NumberFields THEN py_widget_float(v).value
    ELSE IF k \in {"countParkingInFAR", "countBasementInFAR"}
         THEN Bool(Truthy(py_cell(v)))
    ELSE IF k = "bType"
         THEN (IF \E i \in 1..Len(BUILDING_TYPES) : Str(BUILDING_TYPES[i]) = py_cell(v)
               THEN py_cell(v) ELSE Str(BUILDING_TYPES[1]))
    ELSE IF k = "location"
         THEN (IF py_cell(v) = Str("BKK") THEN Str("BKK") ELSE Str("OUTSIDE"))
    ELSE py_cell(v)

\* the dict of each file the user may upload
parsedOf == [text \in ImportFiles |-> parse_csv_to_dict(text)]

\* the file uploader: scenario.update(parsed), then the widget section runs
py_import(text) ==
    LET parsed == parsedOf[text]
    IN  /\ py_Step
        /\ notice # "exception"
        /\ IF \E f \in (DOMAIN parsed) \cap py_NumberFields : py_raises(f, parsed[f])
           THEN /\ notice' = "exception"
                /\ s' = s
           ELSE /\ notice' = "Imported."
                /\ s' = [k \in (DOMAIN s) \cup (DOMAIN parsed) |->
                            IF k \in DOMAIN parsed
                            THEN py_after_widgets(k, parsed[k]) ELSE s[k]]
        /\ py_written

\* the user takes the file out of the uploader after a run that raised
py_clear_upload ==
    /\ py_Step
    /\ notice = "exception"
    /\ notice' = ""
    /\ s' = s
    /\ py_written

----------------------------------------------------------------------------
(* streamlit_app.py: the unit types editor *)

\* [x for x in unit_types if x["id"] not in to_del]
RECURSIVE not_in_to_del(_, _)
not_in_to_del(units, to_del) ==
    IF units = <<>> THEN <<>>
    ELSE (IF Head(units).id \in to_del THEN <<>> ELSE <<Head(units)>>)
         \o not_in_to_del(Tail(units), to_del)

\* the Remove button of the unit type with this id is pressed
py_remove_unit_type(id) ==
    /\ py_Step
    /\ notice # "exception"
    /\ \E i \in DOMAIN session.unit_types : session.unit_types[i].id = id
    /\ session' = [session EXCEPT !.unit_types = not_in_to_del(@, {id})]
    /\ s' = s
    /\ notice' = ""
    /\ py_DEFAULT_written

\* Add Unit Type that hands out the current id_seed without raising it
py_add_unit_type_sameSeed ==
    /\ py_Step
    /\ notice # "exception"
    /\ session' = [session EXCEPT !.unit_types = Append(@,
                        [id |-> session.id_seed,
                         name |-> "Type " \o JoinChars(DigitChars(session.id_seed)),
                         size_sqm |-> R(30),
                         bedrooms |-> R(1), count |-> R(0)])]
    /\ s' = s
    /\ notice' = ""
    /\ py_DEFAULT_written

\* the Add Unit Type button
py_add_unit_type ==
    /\ py_Step
    /\ notice # "exception"
    /\ session' = [id_seed |-> session.id_seed + 1,
                   unit_types |-> Append(session.unit_types,
                        [id |-> session.id_seed + 1,
                         name |-> "Type " \o JoinChars(DigitChars(session.id_seed + 1)),
                         size_sqm |-> R(30),
                         bedrooms |-> R(1), count |-> R(0)])]
    /\ s' = s
    /\ notice' = ""
    /\ py_DEFAULT_written

----------------------------------------------------------------------------
(* The rule table of streamlit_app.py *)

\* Python's None
None == [t |-> "none"]

\* RULES as last assigned: the building table
py_RULES ==
    [x \in {BUILDING_TYPES[i] : i \in 1..Len(BUILDING_TYPES)} |->
        CASE x = "Housing" -> [minOSR |-> R(30), greenPctOfOSR |-> None]
          [] x = "Hi-Rise" -> [minOSR |-> R(10), greenPctOfOSR |-> R(50)]
          [] x = "Low-Rise" -> [minOSR |-> R(10), greenPctOfOSR |-> R(50)]
          [] x = "Public Building" -> [minOSR |-> None, greenPctOfOSR |-> None]
          [] x = "Office Building" -> [minOSR |-> None, greenPctOfOSR |-> None]
          [] x = "Hotel" -> [minOSR |-> R(10), greenPctOfOSR |-> R(40)]]

\* RULES.get(bt, {}).get("minOSR", 15): the default only stands in for a missing key
suggested_osr(bt) ==
    IF bt \in DOMAIN py_RULES THEN py_RULES[bt].minOSR ELSE R(15)

suggested_green(bt) ==
    LET g == IF bt \in DOMAIN py_RULES THEN py_RULES[bt].greenPctOfOSR ELSE None
    IN  IF g.t = "none" THEN R(40) ELSE g

----------------------------------------------------------------------------
(* Legal parking and green area, streamlit_app.py *)

LowerCase == "abcdefghijklmnopqrstuvwxyz"
UpperCase == "ABCDEFGHIJKLMNOPQRSTUVWXYZ"

\* str.upper()
RECURSIVE upper(_)
upper(str) ==
    IF Len(str) = 0 THEN ""
    ELSE LET c == SubSeq(str, 1, 1)
             hit == {i \in 1..Len(LowerCase) : SubSeq(LowerCase, i, i) = c}
         IN (IF hit = {} THEN c
             ELSE LET i == CHOOSE j \in hit : TRUE IN SubSeq(UpperCase, i, i))
            \o upper(SubSeq(str, 2, Len(str)))

\* sum(int(u["count"]) for u in units if float(u["size_sqm"]) >= 60.0)
RECURSIVE rooms_ge60(_)
rooms_ge60(units) ==
    IF units = <<>> THEN 0
    ELSE (IF RLe(R(60), Head(units).size_sqm) THEN RTrunc(Head(units).count) ELSE 0)
         + rooms_ge60(Tail(units))

\* sum(int(u["count"]) for u in units)
RECURSIVE total_units(_)
total_units(units) ==
    IF units = <<>> THEN 0
    ELSE RTrunc(Head(units).count) + total_units(Tail(units))

\* legal_parking_th with area_based rounded down instead of up
legal_parking_th_floor(location, units, gfa_) ==
    LET is_bkk == upper(location) = "BKK"
        size_based == RMul(R(rooms_ge60(units)), IF is_bkk THEN One ELSE Q(1, 2))
        area_quota == IF is_bkk THEN R(120) ELSE R(240)
        area_based == R(RFloor(RDiv(gfa_, area_quota)))
        legal_required == RMax(size_based, area_based)
        units_total == total_units(units)
    IN  [size_based |-> size_based,
         area_based |-> area_based,
         legal_required |-> legal_required,
         parking_pct |-> IF units_total > 0
                         THEN RDiv(RMul(legal_required, Hundred), R(units_total))
                         ELSE Zero,
         total_units |-> units_total]

legal_parking_th(location, units, gfa_) ==
    LET is_bkk == upper(location) = "BKK"
        size_based == RMul(R(rooms_ge60(units)), IF is_bkk THEN One ELSE Q(1, 2))
        area_quota == IF is_bkk THEN R(120) ELSE R(240)
        area_based == R(RCeil(RDiv(gfa_, area_quota)))
        legal_required == RMax(size_based, area_based)
        units_total == total_units(units)
    IN  [size_based |-> size_based,
         area_based |-> area_based,
         legal_required |-> legal_required,
         parking_pct |-> IF units_total > 0
                         THEN RDiv(RMul(legal_required, Hundred), R(units_total))
                         ELSE Zero,
         total_units |-> units_total]

\* green_per_unit taking the smaller of by_size and by_bed
green_per_unit_min(u) ==
    LET by_size == IF RLt(u.size_sqm, R(35)) THEN R(3) ELSE R(5)
        br == IF "bedrooms" \in DOMAIN u THEN u.bedrooms ELSE One
        by_bed == IF RLe(R(4), br) THEN R(8)
                  ELSE IF RLe(R(3), br) THEN R(6)
                  ELSE by_size
    IN  RMin(by_size, by_bed)

green_per_unit(u) ==
    LET by_size == IF RLt(u.size_sqm, R(35)) THEN R(3) ELSE R(5)
        br == IF "bedrooms" \in DOMAIN u THEN u.bedrooms ELSE One
        by_bed == IF RLe(R(4), br) THEN R(8)
                  ELSE IF RLe(R(3), br) THEN R(6)
                  ELSE by_size
    IN  RMax(by_size, by_bed)

\* sum(green_per_unit(u) * float(u["count"]) for u in units)
RECURSIVE green_by_population(_)
green_by_population(units) ==
    IF units = <<>> THEN Zero
    ELSE RAdd(RMul(green_per_unit(Head(units)), Head(units).count),
              green_by_population(Tail(units)))

\* green_th with the general minimum at a quarter of the population figure
green_th_quarter(units, site_area, green_on_ground, green_on_structure) ==
    LET by_population == green_by_population(units)
        sustainable_ground_min == RMax(RMul(Q(15, 100), site_area),
                                       RMul(Q(25, 100), by_population))
        general_ground_min == RMul(Q(1, 4), by_population)
        total_provided == RAdd(green_on_ground, green_on_structure)
    IN  [green_by_population |-> by_population,
         sustainable_ground_min |-> sustainable_ground_min,
         general_ground_min |-> general_ground_min,
         total_green_provided |-> total_provided,
         pass_total |-> RLe(by_population, total_provided),
         pass_sustainable_ground |-> RLe(sustainable_ground_min, green_on_ground),
         pass_general_ground |-> RLe(general_ground_min, green_on_ground),
         need_on_ground_min |-> RMax(sustainable_ground_min, general_ground_min),
         green_on_ground |-> green_on_ground,
         green_on_structure |-> green_on_structure]

green_th(units, site_area, green_on_ground, green_on_structure) ==
    LET by_population == green_by_population(units)
        sustainable_ground_min == RMax(RMul(Q(15, 100), site_area),
                                       RMul(Q(25, 100), by_population))
        general_ground_min == RMul(Q(1, 2), by_population)
        total_provided == RAdd(green_on_ground, green_on_structure)
    IN  [green_by_population |-> by_population,
         sustainable_ground_min |-> sustainable_ground_min,
         general_ground_min |-> general_ground_min,
         total_green_provided |-> total_provided,
         pass_total |-> RLe(by_population, total_provided),
         pass_sustainable_ground |-> RLe(sustainable_ground_min, green_on_ground),
         pass_general_ground |-> RLe(general_ground_min, green_on_ground),
         need_on_ground_min |-> RMax(sustainable_ground_min, general_ground_min),
         green_on_ground |-> green_on_ground,
         green_on_structure |-> green_on_structure]

----------------------------------------------------------------------------
(* Calls of the helper functions on drawn arguments *)

NoCall == [fn |-> "none"]

\* the areas handed to the FAR helpers, one set per leg
FarLegs == [mainAG : {R(0), R(100)}, mainBG : {R(0), R(20)},
            pcAG : {R(0), R(30)}, pcBG : {R(0), R(40)},
            paAG : {R(0), R(50)}, paBG : {R(0), R(60)},
            countParking : BOOLEAN, countBasement : BOOLEAN]

CarCounts == (0 - MaxBelowZero)..MaxCars

\* unit types handed to the parking and green helpers; the last has no bedrooms key
UnitTypes ==
    {[count |-> R(200), size_sqm |-> R(32), bedrooms |-> R(1)],
     [count |-> R(120), size_sqm |-> R(55), bedrooms |-> R(2)],
     [count |-> R(40), size_sqm |-> R(72), bedrooms |-> R(2)],
     [count |-> R(3), size_sqm |-> R(60), bedrooms |-> R(3)],
     [count |-> R(0), size_sqm |-> Q(119, 2), bedrooms |-> R(4)],
     [count |-> R(100), size_sqm |-> R(65)]}

RECURSIVE UnitLists(_)
UnitLists(n) ==
    IF n = 0 THEN {<<>>}
    ELSE UnitLists(n - 1)
         \cup {Append(l, u) : l \in {m \in UnitLists(n - 1) : Len(m) = n - 1},
                              u \in UnitTypes}

Locations == {"BKK", "OUTSIDE", "bkk"}
GfaArgs == {R(0), R(100), R(12000), R(12001), R(-500)}
SiteAreas == {R(8000), R(0)}
GroundGreens == {R(0), R(300), R(1200), Q(2399, 2)}
StructureGreens == {R(0), R(600)}

\* the units the per-unit green rule is called on
UnitGrid ==
    [size_sqm : {R(1), R(32), Q(69, 2), R(35), R(60), R(72)},
     bedrooms : {R(0), R(1), R(2), Q(5, 2), R(3), Q(7, 2), R(4), R(5)},
     count : {R(1)}]
    \cup {u \in UnitTypes : "bedrooms" \notin DOMAIN u}

\* the six building types and one the tables do not know
TypeNames == {BUILDING_TYPES[i] : i \in 1..Len(BUILDING_TYPES)} \cup {"Warehouse"}

PendingCalls ==
    {[fn |-> f, arg |-> n, done |-> FALSE, out |-> 0] :
        f \in {"calcDisabledParking", "calc_disabled_parking"}, n \in CarCounts}
    \cup
    {[fn |-> f, arg |-> a, done |-> FALSE, out |-> Zero] :
        f \in {"computeFarCounted", "compute_far_counted"}, a \in FarLegs}
    \cup
    {[fn |-> f, arg |-> x, done |-> FALSE, out |-> Zero] :
        f \in {"suggestedOSR", "suggestedGreenPct", "suggested_osr", "suggested_green"},
        x \in TypeNames}
    \cup
    {[fn |-> "legal_parking_th", arg |-> a, done |-> FALSE, out |-> Zero] :
        a \in [location : Locations, units : UnitLists(MaxUnits), gfa : GfaArgs]}
    \cup
    {[fn |-> "green_per_unit", arg |-> u, done |-> FALSE, out |-> Zero] :
        u \in UnitGrid}
    \cup
    {[fn |-> "green_th", arg |-> a, done |-> FALSE, out |-> Zero] :
        a \in [units : UnitLists(MaxUnits), site_area : SiteAreas,
               green_on_ground : GroundGreens, green_on_structure : StructureGreens]}

FnStep == /\ app = "fn"
          /\ ~call.done
          /\ UNCHANGED <<app, scenario, s, edits, now, notice, template, session>>

Call_calcDisabledParking ==
    /\ FnStep
    /\ call.fn = "calcDisabledParking"
    /\ call' = [call EXCEPT !.done = TRUE, !.out = calcDisabledParking(R(call.arg))]

Call_calc_disabled_parking ==
    /\ FnStep
    /\ call.fn = "calc_disabled_parking"
    /\ call' = [call EXCEPT !.done = TRUE, !.out = calc_disabled_parking(R(call.arg))]

Call_computeFarCounted ==
    /\ FnStep
    /\ call.fn = "computeFarCounted"
    /\ call' = [call EXCEPT !.done = TRUE,
                  !.out = computeFarCounted(call.arg.mainAG, call.arg.mainBG,
                              call.arg.pcAG, call.arg.pcBG, call.arg.paAG, call.arg.paBG,
                              Bool(call.arg.countParking), Bool(call.arg.countBasement))]

Call_compute_far_counted ==
    /\ FnStep
    /\ call.fn = "compute_far_counted"
    /\ call' = [call EXCEPT !.done = TRUE,
                  !.out = compute_far_counted(call.arg.mainAG, call.arg.mainBG,
                              call.arg.pcAG, call.arg.pcBG, call.arg.paAG, call.arg.paBG,
                              Bool(call.arg.countParking), Bool(call.arg.countBasement))]

Call_suggestedOSR ==
    /\ FnStep
    /\ call.fn = "suggestedOSR"
    /\ call' = [call EXCEPT !.done = TRUE, !.out = R(suggestedOSR(call.arg))]

Call_suggestedGreenPct ==
    /\ FnStep
    /\ call.fn = "suggestedGreenPct"
    /\ call' = [call EXCEPT !.done = TRUE, !.out = R(suggestedGreenPct(call.arg))]

Call_suggested_osr ==
    /\ FnStep
    /\ call.fn = "suggested_osr"
    /\ call' = [call EXCEPT !.done = TRUE, !.out = suggested_osr(call.arg)]

Call_suggested_green ==
    /\ FnStep
    /\ call.fn = "suggested_green"
    /\ call' = [call EXCEPT !.done = TRUE, !.out = suggested_green(call.arg)]

Call_legal_parking_th ==
    /\ FnStep
    /\ call.fn = "legal_parking_th"
    /\ call' = [call EXCEPT !.done = TRUE,
                  !.out = legal_parking_th(call.arg.location, call.arg.units,
                                           call.arg.gfa)]

Call_green_per_unit ==
    /\ FnStep
    /\ call.fn = "green_per_unit"
    /\ call' = [call EXCEPT !.done = TRUE, !.out = green_per_unit(call.arg)]

Call_green_th ==
    /\ FnStep
    /\ call.fn = "green_th"
    /\ call' = [call EXCEPT !.done = TRUE,
                  !.out = green_th(call.arg.units, call.arg.site_area,
                                   call.arg.green_on_ground,
                                   call.arg.green_on_structure)]

----------------------------------------------------------------------------
(* Specification *)

InitFn == /\ app = "fn"
          /\ call \in PendingCalls

\* st.session_state.unit_types as first set
initial_unit_types ==
    <<[id |-> 1, name |-> "1-BR", size_sqm |-> R(32), bedrooms |-> R(1), count |-> R(200)],
      [id |-> 2, name |-> "2-BR", size_sqm |-> R(55), bedrooms |-> R(2), count |-> R(120)],
      [id |-> 3, name |-> "2-BR Large", size_sqm |-> R(72), bedrooms |-> R(2),
       count |-> R(40)]>>

InitReact == /\ app = "react"
             /\ call = NoCall

InitStreamlit == /\ app = "streamlit"
                 /\ call = NoCall

Init == /\ (InitFn \/ InitReact \/ InitStreamlit)
        /\ scenario = DEFAULT_SCENARIO
        /\ s = DEFAULT
        /\ edits = 0
        /\ now = 0
        /\ notice = ""
        /\ template = [DEFAULT_SCENARIO |-> DEFAULT_SCENARIO, DEFAULT |-> DEFAULT]
        /\ session = [unit_types |-> initial_unit_types, id_seed |-> 3]

Next ==
    \/ Call_calcDisabledParking
    \/ Call_calc_disabled_parking
    \/ Call_computeFarCounted
    \/ Call_compute_far_counted
    \/ Call_suggestedOSR
    \/ Call_suggestedGreenPct
    \/ Call_suggested_osr
    \/ Call_suggested_green
    \/ Call_legal_parking_th
    \/ Call_green_per_unit
    \/ Call_green_th
    \/ \E f \in Max0Fields : \E v \in Typed(f) : SetMax0(f, v)
    \/ \E f \in Max1Fields : \E v \in Typed(f) : SetMax1(f, v)
    \/ \E f \in PctFields : \E v \in Typed(f) : SetPct(f, v)
    \/ \E f \in CircFields : \E v \in Typed(f) : SetCirc(f, v)
    \/ \E v \in Typed("far") : SetFar(v)
    \/ \E i \in 1..Len(BUILDING_TYPES) : SelectBType(BUILDING_TYPES[i])
    \/ \E mode \in {"abs", "pct"} : SelectMainPlateMode(mode)
    \/ \E value \in {"true", "false"} : SelectCountParkingInFAR(value)
    \/ \E value \in {"true", "false"} : SelectCountBasementInFAR(value)
    \/ \E t \in 0..MaxClock : AddCustomCost(t)
    \/ \E j \in 1..MaxEdits : \E name \in TypedName : EditCustomCostName(j, name)
    \/ \E j \in 1..MaxEdits : \E kind \in CostKinds : EditCustomCostKind(j, kind)
    \/ \E j \in 1..MaxEdits : \E rate \in TypedRate : EditCustomCostRate(j, rate)
    \/ \E j \in 1..MaxEdits : RemoveCustomCost(j)
    \/ \E text \in ImportFiles : ImportCSV(text)
    \/ \E f \in py_NumberFields : \E v \in py_Typed(f) : py_number_input(f, v)
    \/ \E i \in 1..Len(BUILDING_TYPES) : py_select_bType(BUILDING_TYPES[i])
    \/ \E loc \in {"BKK", "OUTSIDE"} : py_select_location(loc)
    \/ \E choice \in {"Yes", "No"} : py_select_countParkingInFAR(choice)
    \/ \E choice \in {"Yes", "No"} : py_select_countBasementInFAR(choice)
    \/ \E text \in ImportFiles : py_import(text)
    \/ py_clear_upload
    \/ \E id \in 1..(3 + MaxEdits) : py_remove_unit_type(id)
    \/ py_add_unit_type

Spec == Init /\ [][Next]_vars

----------------------------------------------------------------------------
(* Properties of the two programs *)

\* a finished call of one of the two disabled-parking helpers
DisabledCallDone ==
    app = "fn" /\ call.fn \in {"calcDisabledParking", "calc_disabled_parking"} /\ call.done

\* the step function of the disabled-parking rule on an integer n
DisabledStep(n) ==
    IF n <= 0 THEN 0
    ELSE IF n <= 50 THEN 2
    ELSE IF n <= 100 THEN 3
    ELSE 3 + ((n - 100) + 99) \div 100

\* C1: calcDisabledParking(n) is 0 for n <= 0, 2 for 1..50, 3 for 51..100 and
\* 3 + ceil((n - 100) / 100) above 100, for every integer n; the six literals of the
\* self-test hold; and the derived disabledCars is that function of totalCars.
C1_DisabledParkingStepFunction ==
    /\ DisabledCallDone =>
          /\ call.out = DisabledStep(call.arg)
          /\ (call.arg = 0 => call.out = 0)
          /\ (call.arg = 50 => call.out = 2)
          /\ (call.arg = 51 => call.out = 3)
          /\ (call.arg = 100 => call.out = 3)
          /\ (call.arg = 101 => call.out = 4)
          /\ (call.arg = 250 => call.out = 5)
    /\ app = "react" =>
          LET cars == totalCars(scenario)
          IN  cars.d = 1 => disabledCars(scenario) = DisabledStep(cars.n)
    /\ (app = "streamlit") =>
          py_disabledCars(s) = DisabledStep(py_totalCars(s))

C1_Witness ==
    /\ app = "fn" /\ call.fn = "calcDisabledParking" /\ call.done
    /\ call.arg = 250 /\ call.out = 5

\* C2: calcDisabledParking is non-decreasing: a <= b implies f(a) <= f(b); and a
\* scenario edit that does not lower totalCars does not lower disabledCars.
C2_DisabledParkingMonotone ==
    /\ [](DisabledCallDone =>
            \A b \in CarCounts :
                /\ (call.arg <= b =>
                        call.out <= (IF call.fn = "calcDisabledParking"
                                     THEN calcDisabledParking(R(b))
                                     ELSE calc_disabled_parking(R(b))))
                /\ (b <= call.arg =>
                        (IF call.fn = "calcDisabledParking"
                         THEN calcDisabledParking(R(b))
                         ELSE calc_disabled_parking(R(b))) <= call.out))
    /\ [][(app = "react" /\ RLe(totalCars(scenario), totalCars(scenario')))
              => disabledCars(scenario) <= disabledCars(scenario')]_vars

C2_Witness ==
    /\ app = "react" /\ edits > 0
    /\ RLt(totalCars(DEFAULT_SCENARIO), totalCars(scenario))
    /\ disabledCars(DEFAULT_SCENARIO) < disabledCars(scenario)

\* a finished call of computeFarCounted
FarCallDone == app = "fn" /\ call.fn = "computeFarCounted" /\ call.done

\* C3: automated parking is never counted toward FAR: computeFarCounted is
\* mainAG + (mainBG if countBasement) + (pcAG + (pcBG if countBasement) if countParking),
\* whatever paAG and paBG are.
C3_AutoParkingNeverCounted ==
    FarCallDone =>
        call.out =
            RAdd(RAdd(call.arg.mainAG, IF call.arg.countBasement THEN call.arg.mainBG ELSE Zero),
                 IF call.arg.countParking
                 THEN RAdd(call.arg.pcAG, IF call.arg.countBasement THEN call.arg.pcBG ELSE Zero)
                 ELSE Zero)

C5_GfaIsMainPlusConventional ==
    app = "streamlit" =>
        /\ REq(py_gfa(s), RAdd(py_mainCFA(s), py_parkConCFA(s)))
        /\ REq(legal_gfa(s), RAdd(py_mainCFA(s), py_parkConCFA(s)))
        /\ REq(publicArea(s),
               RMul(Pct(s.publicPctOfGFA), RAdd(py_mainCFA(s), py_parkConCFA(s))))

\* the FAR-counted area of the browser program, leg by leg from the scenario
CountedArea(state) ==
    LET basement == Truthy(state.countBasementInFAR)
        main == RAdd(mainCFA_AG(state), IF basement THEN mainCFA_BG(state) ELSE Zero)
        conv == RAdd(parkConCFA_AG(state), IF basement THEN parkConCFA_BG(state) ELSE Zero)
        auto == RAdd(parkAutoCFA_AG(state), IF basement THEN parkAutoCFA_BG(state) ELSE Zero)
    IN  IF Truthy(state.countParkingInFAR) THEN RAdd(RAdd(main, conv), auto) ELSE main

\* the FAR-counted area of the Streamlit program, leg by leg from the scenario
py_CountedArea(d) ==
    LET basement == Truthy(d.countBasementInFAR)
        main == RAdd(py_mainCFA_AG(d), IF basement THEN py_mainCFA_BG(d) ELSE Zero)
        conv == RAdd(py_pcCFA_AG(d), IF basement THEN py_pcCFA_BG(d) ELSE Zero)
    IN  IF Truthy(d.countParkingInFAR) THEN RAdd(main, conv) ELSE main

\* far held to [1, 10]
ClampedFar(x) == IF RLt(x, R(1)) THEN R(1) ELSE IF RLt(R(10), x) THEN R(10) ELSE x

C7_MaxGfaUsesClampedFar ==
    /\ app = "react" =>
          /\ maxGFA(scenario) = RMul(scenario.siteArea, ClampedFar(scenario.far))
          /\ RLe(Zero, scenario.siteArea) =>
                /\ RLe(scenario.siteArea, maxGFA(scenario))
                /\ RLe(maxGFA(scenario), RMul(R(10), scenario.siteArea))
    /\ app = "streamlit" =>
          /\ py_maxGFA(s) = RMul(s.siteArea, ClampedFar(s.far))
          /\ py_maxGFA_first(s) = py_maxGFA(s)
          /\ RLe(s.siteArea, py_maxGFA(s))
          /\ RLe(py_maxGFA(s), RMul(R(10), s.siteArea))

C7_Witness ==
    /\ app = "react"
    /\ scenario.far = R(50)
    /\ scenario.siteArea = R(8000)
    /\ maxGFA(scenario) = R(80000)

\* a scenario of the browser program with percentages in [0, 100] and floor counts
\* and plates >= 0
WellFormed(state) ==
    /\ \A f \in {"nlaPctOfCFA", "nsaPctOfCFA", "gfaOverCfaPct", "mainFloorsAG",
                 "mainFloorsBG", "parkingConFloorsAG", "parkingConFloorsBG",
                 "parkingAutoFloorsAG", "parkingAutoFloorsBG", "mainFloorPlate",
                 "parkingConPlate", "parkingAutoPlate"} :
          state[f].t = "num" /\ RLe(Zero, state[f])
    /\ \A f \in {"nlaPctOfCFA", "nsaPctOfCFA", "gfaOverCfaPct"} : RLe(state[f], Hundred)

\* the same for a scenario of the Streamlit program
py_WellFormed(d) ==
    /\ \A f \in {"gfaOverCfaPct", "publicPctOfGFA", "bohPctOfGFA", "servicePctOfGFA",
                 "nlaPctOfPublic", "mainFloorsAG", "mainFloorsBG", "parkingConFloorsAG",
                 "parkingConFloorsBG", "parkingAutoFloorsAG", "parkingAutoFloorsBG",
                 "mainFloorPlate", "parkingConPlate", "parkingAutoPlate"} :
          RLe(Zero, d[f])
    /\ \A f \in {"gfaOverCfaPct", "publicPctOfGFA", "bohPctOfGFA", "servicePctOfGFA",
                 "nlaPctOfPublic"} : RLe(d[f], Hundred)

InUnit(x) == RLe(Zero, x) /\ RLe(x, One)

\* C8: for every well-formed scenario the design-efficiency ratios GFA/CFA, NSA/GFA,
\* NSA/CFA and NLA/GFA lie in [0, 1] and are 0 when their denominator is 0, in the
\* ratio-mode engine and in the breakdown-mode engine alike.
C8_RatiosInUnitInterval ==
    /\ (app = "react" /\ WellFormed(scenario)) =>
          /\ InUnit(ratioNSA_GFA(scenario))
          /\ InUnit(ratioNSA_CFA(scenario))
          /\ InUnit(ratioNLA_GFA(scenario))
          /\ InUnit(ratioNLA_CFA(scenario))
          /\ REq(gfa(scenario), Zero) =>
                (ratioNSA_GFA(scenario) = Zero /\ ratioNLA_GFA(scenario) = Zero)
          /\ REq(totalCFA(scenario), Zero) =>
                (ratioNSA_CFA(scenario) = Zero /\ ratioNLA_CFA(scenario) = Zero)
    /\ (app = "streamlit" /\ py_WellFormed(s)) =>
          /\ InUnit(de_GFA_over_CFA(s))
          /\ InUnit(de_NSA_over_GFA(s))
          /\ InUnit(de_NSA_over_CFA(s))
          /\ InUnit(de_NLA_over_GFA(s))
          /\ REq(py_gfa(s), Zero) =>
                (de_NSA_over_GFA(s) = Zero /\ de_NLA_over_GFA(s) = Zero)
          /\ REq(py_totalCFA(s), Zero) =>
                (de_NSA_over_CFA(s) = Zero /\ de_GFA_over_CFA(s) = Zero)

\* C9: budgetOk is true when budget is 0; when budget > 0 it is true exactly when
\* the total cost is at most the budget, so a budget of 1 baht under a larger cost
\* gives false.
C9_BudgetPolicy ==
    /\ app = "react" =>
          /\ scenario.budget = Zero => budgetOk(scenario)
          /\ RLt(Zero, scenario.budget) =>
                (budgetOk(scenario) <=> RLe(capexTotal(scenario), scenario.budget))
          /\ (scenario.budget = Q(1, 1000) /\ RLt(Q(1, 1000), capexTotal(scenario)))
                => ~budgetOk(scenario)
    /\ app = "streamlit" =>
          /\ s.budget = Zero => py_budgetOk(s)
          /\ RLt(Zero, s.budget) => (py_budgetOk(s) <=> RLe(projectCost(s), s.budget))
          /\ (s.budget = Q(1, 1000) /\ RLt(Q(1, 1000), projectCost(s))) => ~py_budgetOk(s)

C9_Witness ==
    /\ app = "react"
    /\ scenario.budget = Zero
    /\ RLt(Zero, capexTotal(scenario))
    /\ budgetOk(scenario)

\* the fields the height does not depend on: the basement floor counts and the plates
BelowGroundAndPlates ==
    {"mainFloorsBG", "parkingConFloorsBG", "parkingAutoFloorsBG",
     "mainFloorPlate", "parkingConPlate", "parkingAutoPlate"}

\* C10: estHeight is ftf * (mainFloorsAG + parkingConFloorsAG + parkingAutoFloorsAG)
\* and heightOk is estHeight <= maxHeight; a change of basement floor counts or plate
\* areas alone leaves both as they were.
C10_HeightFromAboveGroundFloors ==
    /\ [](/\ app = "react" =>
                /\ estHeight(scenario) =
                      RMul(scenario.ftf,
                           Q(scenario.mainFloorsAG.n * scenario.parkingConFloorsAG.d
                                 * scenario.parkingAutoFloorsAG.d
                             + scenario.parkingConFloorsAG.n * scenario.mainFloorsAG.d
                                 * scenario.parkingAutoFloorsAG.d
                             + scenario.parkingAutoFloorsAG.n * scenario.mainFloorsAG.d
                                 * scenario.parkingConFloorsAG.d,
                             scenario.mainFloorsAG.d * scenario.parkingConFloorsAG.d
                                 * scenario.parkingAutoFloorsAG.d))
                /\ heightOk(scenario) <=> RLe(estHeight(scenario), scenario.maxHeight)
          /\ app = "streamlit" =>
                /\ py_estHeight(s) =
                      RMul(s.ftf,
                           Q(s.mainFloorsAG.n * s.parkingConFloorsAG.d * s.parkingAutoFloorsAG.d
                             + s.parkingConFloorsAG.n * s.mainFloorsAG.d * s.parkingAutoFloorsAG.d
                             + s.parkingAutoFloorsAG.n * s.mainFloorsAG.d * s.parkingConFloorsAG.d,
                             s.mainFloorsAG.d * s.parkingConFloorsAG.d * s.parkingAutoFloorsAG.d))
                /\ py_heightOk(s) <=> RLe(py_estHeight(s), s.maxHeight))
    /\ [][/\ (/\ app = "react"
              /\ DOMAIN scenario' = DOMAIN scenario
              /\ \A k \in (DOMAIN scenario) \ BelowGroundAndPlates : scenario'[k] = scenario[k])
             => (/\ estHeight(scenario') = estHeight(scenario)
                 /\ heightOk(scenario') = heightOk(scenario))
          /\ (/\ app = "streamlit"
              /\ DOMAIN s' = DOMAIN s
              /\ \A k \in (DOMAIN s) \ BelowGroundAndPlates : s'[k] = s[k])
             => (/\ py_estHeight(s') = py_estHeight(s)
                 /\ py_heightOk(s') = py_heightOk(s))]_vars

C10_Witness ==
    /\ app = "react"
    /\ scenario.mainFloorsBG = R(2)
    /\ scenario.mainFloorsAG = DEFAULT_SCENARIO.mainFloorsAG
    /\ estHeight(scenario) = estHeight(DEFAULT_SCENARIO)
    /\ RLt(Zero, estHeight(scenario))

\* the fields the parking supply reads
ParkingInputs ==
    {"parkingConPlate", "parkingAutoPlate", "openLotArea", "bayConv", "bayAuto",
     "openLotBay", "circConvPct", "circAutoPct", "openLotCircPct",
     "parkingConFloorsAG", "parkingConFloorsBG", "parkingAutoFloorsAG",
     "parkingAutoFloorsBG"}

NonNegativeParkingInputs(state) ==
    \A f \in ParkingInputs : state[f].t = "num" /\ RLe(Zero, state[f])

\* floor(area / max(1, bay * (1 + circ))) in integer arithmetic
CarsOn(area, bay, circ) ==
    LET eff == RMul(bay, RAdd(One, circ))
        per == IF RLt(eff, One) THEN One ELSE eff
    IN  (area.n * per.d) \div (area.d * per.n)

IsCount(x) == x.d = 1 /\ x.n >= 0

\* C11 as stated: the per-floor counts and the open-lot count are floors of area over
\* max(1, effective area per car), the totals are per-floor count times AG + BG floors,
\* totalCars is their sum, and for non-negative inputs every count is a non-negative
\* integer.
C11_ParkingSupplyAsStated ==
    /\ (app = "react" /\ NonNegativeParkingInputs(scenario)) =>
          /\ convCarsPerFloor(scenario) =
                CarsOn(scenario.parkingConPlate, scenario.bayConv, scenario.circConvPct)
          /\ totalConvCars(scenario) =
                RMul(R(convCarsPerFloor(scenario)),
                     RAdd(scenario.parkingConFloorsAG, scenario.parkingConFloorsBG))
          /\ IsCount(totalConvCars(scenario))
          /\ IsCount(totalAutoCars(scenario))
          /\ IsCount(totalCars(scenario))
    /\ app = "streamlit" =>
          /\ py_convCarsPerFloor(s) = CarsOn(s.parkingConPlate, s.bayConv, s.circConvPct)
          /\ R(py_totalConvCars(s)) =
                RMul(R(py_convCarsPerFloor(s)),
                     RAdd(s.parkingConFloorsAG, s.parkingConFloorsBG))
          /\ R(py_totalAutoCars(s)) =
                RMul(R(py_autoCarsPerFloor(s)),
                     RAdd(s.parkingAutoFloorsAG, s.parkingAutoFloorsBG))

\* C11: the per-floor counts and the open-lot count are floors of area over
\* max(1, effective area per car) and non-negative integers; the browser program
\* multiplies the per-floor count by the AG + BG floor sum as it is (an integer total
\* when the sum is whole), the Streamlit program by the sum truncated to an integer;
\* totalCars is the sum of the three; openLotCars equals the self-test's recomputation.
C11_ParkingSupply ==
    /\ (app = "react" /\ NonNegativeParkingInputs(scenario)) =>
          LET conv == convCarsPerFloor(scenario)
              auto == autoCarsPerFloor(scenario)
              open == openLotCars(scenario)
              conFloors == RAdd(scenario.parkingConFloorsAG, scenario.parkingConFloorsBG)
              autoFloors == RAdd(scenario.parkingAutoFloorsAG,
                                 scenario.parkingAutoFloorsBG)
              cars == totalCars(scenario)
          IN  /\ conv = CarsOn(scenario.parkingConPlate, scenario.bayConv,
                               scenario.circConvPct)
              /\ auto = CarsOn(scenario.parkingAutoPlate, scenario.bayAuto,
                               scenario.circAutoPct)
              /\ open = CarsOn(scenario.openLotArea, scenario.openLotBay,
                               scenario.openLotCircPct)
              /\ conv >= 0 /\ auto >= 0 /\ open >= 0
              /\ totalConvCars(scenario) = RMul(R(conv), conFloors)
              /\ totalAutoCars(scenario) = RMul(R(auto), autoFloors)
              /\ cars = RAdd(RAdd(RMul(R(conv), conFloors), RMul(R(auto), autoFloors)),
                             R(open))
              /\ RLe(Zero, cars)
              /\ (conFloors.d = 1 /\ autoFloors.d = 1) => IsCount(cars)
    /\ app = "streamlit" =>
          LET conv == py_convCarsPerFloor(s)
              auto == py_autoCarsPerFloor(s)
              open == py_openLotCars(s)
              conFloors == RFloor(RAdd(s.parkingConFloorsAG, s.parkingConFloorsBG))
              autoFloors == RFloor(RAdd(s.parkingAutoFloorsAG, s.parkingAutoFloorsBG))
          IN  /\ conv = CarsOn(s.parkingConPlate, s.bayConv, s.circConvPct)
              /\ auto = CarsOn(s.parkingAutoPlate, s.bayAuto, s.circAutoPct)
              /\ open = CarsOn(s.openLotArea, s.openLotBay, s.openLotCircPct)
              /\ py_totalConvCars(s) = conv * conFloors
              /\ py_totalAutoCars(s) = auto * autoFloors
              /\ py_totalCars(s) = conv * conFloors + auto * autoFloors + open
              /\ py_totalCars(s) >= 0

C11_Witness ==
    /\ app = "streamlit"
    /\ s.parkingConFloorsBG = Q(5, 2)
    /\ py_convCarsPerFloor(s) > 0
    /\ py_totalConvCars(s) = py_convCarsPerFloor(s) * 2

\* the scenario obtained by exporting state and importing the file into a fresh default
ReImported(state) == onUpdate(DEFAULT_SCENARIO, importPatch(handleExportCSV(state)))

\* C12: exporting a scenario and importing the file into a fresh default scenario gives
\* back every field with its value and type, the two FAR flags as booleans and
\* customCosts as an equal list, and so the same derived results.
C12_CsvRoundTrip ==
    app = "react" =>
        LET back == ReImported(scenario)
        IN  /\ \A k \in DOMAIN scenario : back[k] = scenario[k]
            /\ farCounted(back) = farCounted(scenario)

\* C13: a Value cell that reads true or false is stored as a boolean: after importing
\* the rows countBasementInFAR,false and countParkingInFAR,false both flags are the
\* boolean false and the FAR-counted area is the above-ground main area alone.
C13_BooleanCellsImported ==
    [][/\ ImportCSV(CsvFlags) =>
            /\ scenario'.countBasementInFAR = Bool(FALSE)
            /\ scenario'.countParkingInFAR = Bool(FALSE)
            /\ farCounted(scenario') = mainCFA_AG(scenario')
       /\ py_import(CsvFlags) =>
            /\ s'.countBasementInFAR = Bool(FALSE)
            /\ s'.countParkingInFAR = Bool(FALSE)
            /\ py_farCounted(s') = py_mainCFA_AG(s')]_vars

\* C14: an import applies known fields only: the scenario has the same keys after any
\* import as before it, and a field without a row in the file keeps its value.
C14_ImportKeepsKeySet ==
    [][\A text \in ImportFiles :
          /\ ImportCSV(text) =>
                /\ DOMAIN scenario' = DOMAIN scenario
                /\ \A k \in (DOMAIN scenario) \ (DOMAIN patchOf[text]) :
                      scenario'[k] = scenario[k]
          /\ py_import(text) =>
                /\ DOMAIN s' = DOMAIN s
                /\ \A k \in (DOMAIN s) \ (DOMAIN parsedOf[text]) : s'[k] = s[k]]_vars

\* C15: an import rejected for a parse failure (no Field,Value header, a Value that
\* starts with { or [ and is not valid JSON) leaves the scenario as it was and
\* produces an "Import failed" notice.
C15_FailedImportLeavesScenario ==
    [][/\ ImportCSV(CsvBad) => (scenario' = scenario /\ notice' = "Import failed")
       /\ py_import(CsvBad) => (s' = s /\ notice' = "Import failed")]_vars

\* the scenario holds what the widgets store: numbers, the two plate modes, booleans
WidgetMade(state) ==
    /\ \A k \in DOMAIN DEFAULT_SCENARIO : k \in DOMAIN state /\ state[k].t = DEFAULT_SCENARIO[k].t
    /\ state.mainPlateMode \in {Str("abs"), Str("pct")}

\* C16: in every state the widgets can produce from the default scenario, every entry
\* of the self-test list has actual equal to expected.
C16_SelfTestsPass ==
    (app = "react" /\ WidgetMade(scenario)) =>
        LET list == TestsPanel(scenario)
        IN \A i \in DOMAIN list : list[i].actual = list[i].expected

\* an open lot that holds a fractional number of bays, tested in percent plate mode
C16_Witness ==
    /\ app = "react"
    /\ WidgetMade(scenario)
    /\ edits > 0
    /\ scenario.openLotArea = Q(499, 10)
    /\ Len(TestsPanel(scenario)) = 11
    /\ TestsPanel(scenario)[10].actual = R(1)

\* the sum of count over the units of at least minSize square metres
RECURSIVE CountOver(_, _)
CountOver(units, minSize) ==
    IF units = <<>> THEN Zero
    ELSE RAdd(IF RLe(minSize, Head(units).size_sqm) THEN Head(units).count ELSE Zero,
              CountOver(Tail(units), minSize))

LegalCallDone == app = "fn" /\ call.fn = "legal_parking_th" /\ call.done

\* the one-type example: 100 units of 65 square metres
ExampleUnits65 == <<[count |-> R(100), size_sqm |-> R(65)]>>

\* C17: the legal parking minimum is the larger of the size-based count (rooms of at
\* least 60 m2, one car each in BKK, half a car each outside) and the area-based count
\* (ceil(gfa/120) in BKK, ceil(gfa/240) outside); parking_pct is that minimum times 100
\* over the number of units, 0 when there are no units; the example gives 100 four times.
C17_LegalParking ==
    LegalCallDone =>
        LET a == call.arg
            inside == a.location \in {"BKK", "bkk"}
            ge60 == CountOver(a.units, R(60))
            size == IF inside THEN ge60 ELSE RMul(ge60, Q(1, 2))
            area == IF inside THEN R(RCeil(RDiv(a.gfa, R(120))))
                    ELSE R(RCeil(RDiv(a.gfa, R(240))))
            all == CountOver(a.units, Zero)
        IN  /\ call.out.size_based = size
            /\ call.out.area_based = area
            /\ call.out.legal_required = (IF RLe(size, area) THEN area ELSE size)
            /\ R(call.out.total_units) = all
            /\ all = Zero => call.out.parking_pct = Zero
            /\ all # Zero =>
                  call.out.parking_pct = RDiv(RMul(call.out.legal_required, Hundred), all)
            /\ (a.location = "BKK" /\ a.units = ExampleUnits65 /\ a.gfa = R(12000)) =>
                  /\ call.out.size_based = R(100)
                  /\ call.out.area_based = R(100)
                  /\ call.out.legal_required = R(100)
                  /\ call.out.parking_pct = R(100)

\* outside BKK, two types with rooms of at least 60 m2, the area-based count larger
C17_Witness ==
    /\ LegalCallDone
    /\ call.arg.location = "OUTSIDE"
    /\ Len(call.arg.units) = 2
    /\ call.out.size_based = Q(3, 2)
    /\ call.out.area_based = R(51)
    /\ call.out.legal_required = R(51)

GreenUnitCallDone == app = "fn" /\ call.fn = "green_per_unit" /\ call.done

\* the bedrooms of a unit, one when the unit names none
BedroomsOf(u) == IF "bedrooms" \in DOMAIN u THEN u.bedrooms ELSE One

\* C18: green_per_unit is max(by_size, by_bed), by_size 3 under 35 m2 and 5 otherwise,
\* by_bed 8 from four bedrooms, 6 from three, by_size below; the result is one of
\* 3, 5, 6, 8, equals by_size under three bedrooms, and never falls when the size or the
\* number of bedrooms grows.
C18_GreenPerUnit ==
    GreenUnitCallDone =>
        LET u == call.arg
            bySize == IF RLt(u.size_sqm, R(35)) THEN 3 ELSE 5
            byBed == IF RLe(R(4), BedroomsOf(u)) THEN 8
                     ELSE IF RLe(R(3), BedroomsOf(u)) THEN 6 ELSE bySize
        IN  /\ call.out = R(IF bySize >= byBed THEN bySize ELSE byBed)
            /\ call.out \in {R(3), R(5), R(6), R(8)}
            /\ RLt(BedroomsOf(u), R(3)) => call.out = R(bySize)
            /\ \A v \in UnitGrid :
                  (RLe(u.size_sqm, v.size_sqm) /\ RLe(BedroomsOf(u), BedroomsOf(v)))
                      => RLe(call.out, green_per_unit(v))

\* a small unit with four bedrooms: by_bed 8 beats by_size 3
C18_Witness ==
    /\ GreenUnitCallDone
    /\ call.arg.size_sqm = R(32)
    /\ BedroomsOf(call.arg) = R(4)
    /\ call.out = R(8)

GreenCallDone == app = "fn" /\ call.fn = "green_th" /\ call.done

\* the per-unit green area by the stated rule
GreenRule(u) ==
    IF RLe(R(4), BedroomsOf(u)) THEN R(8)
    ELSE IF RLe(R(3), BedroomsOf(u)) THEN R(6)
    ELSE IF RLt(u.size_sqm, R(35)) THEN R(3) ELSE R(5)

\* the sum over the unit types of the per-unit green area times the count
RECURSIVE GreenOver(_)
GreenOver(units) ==
    IF units = <<>> THEN Zero
    ELSE RAdd(RMul(GreenRule(Head(units)), Head(units).count), GreenOver(Tail(units)))

\* the one-type example: 200 one-bedroom units of 32 square metres
ExampleUnits32 == <<[count |-> R(200), size_sqm |-> R(32), bedrooms |-> R(1)]>>

\* C19: green_by_population sums green_per_unit times count; the sustainable ground
\* minimum is the larger of 15% of the site and 25% of that sum, the general ground
\* minimum is half of it, need_on_ground_min the larger of the two; pass_total compares
\* ground plus structure with the sum, the two ground flags compare the ground green
\* with their minimum, so both hold exactly from need_on_ground_min; the example gives
\* 600, 1200 and 300.
C19_GreenCheck ==
    GreenCallDone =>
        LET a == call.arg
            o == call.out
            pop == GreenOver(a.units)
            fromSite == RMul(Q(15, 100), a.site_area)
            fromPop == RMul(Q(25, 100), pop)
            sustainable == IF RLe(fromSite, fromPop) THEN fromPop ELSE fromSite
            general == RMul(Q(1, 2), pop)
        IN  /\ o.green_by_population = pop
            /\ o.sustainable_ground_min = sustainable
            /\ o.general_ground_min = general
            /\ o.need_on_ground_min = (IF RLe(sustainable, general) THEN general
                                       ELSE sustainable)
            /\ o.pass_total <=> RLe(pop, RAdd(a.green_on_ground, a.green_on_structure))
            /\ o.pass_sustainable_ground <=> RLe(sustainable, a.green_on_ground)
            /\ o.pass_general_ground <=> RLe(general, a.green_on_ground)
            /\ (o.pass_sustainable_ground /\ o.pass_general_ground)
                  <=> RLe(o.need_on_ground_min, a.green_on_ground)
            /\ (a.units = ExampleUnits32 /\ a.site_area = R(8000)) =>
                  /\ o.green_by_population = R(600)
                  /\ o.sustainable_ground_min = R(1200)
                  /\ o.general_ground_min = R(300)

\* the general minimum above the sustainable one, ground green between the two
C19_Witness ==
    /\ GreenCallDone
    /\ RLt(call.out.sustainable_ground_min, call.out.general_ground_min)
    /\ call.out.pass_sustainable_ground
    /\ ~call.out.pass_general_ground
    /\ call.out.pass_total

\* the four efficiency percentages the breakdown uses are within [0, 100]
EfficiencyInRange(d) ==
    \A f \in {"publicPctOfGFA", "bohPctOfGFA", "servicePctOfGFA", "nlaPctOfPublic"} :
        RLe(Zero, d[f]) /\ RLe(d[f], Hundred)

\* C20: in breakdown mode nsa = max(0, gfa - (publicArea + bohArea + serviceArea)) is
\* never negative, also when the three percentages of GFA add up to more than 100, and
\* nla = nlaPctOfPublic/100 * publicArea never exceeds publicArea.
C20_NsaNeverNegative ==
    (app = "streamlit" /\ EfficiencyInRange(s)) =>
        /\ py_nsa(s) = RMax(Zero, RSub(py_gfa(s),
                                RAdd(RAdd(publicArea(s), bohArea(s)), serviceArea(s))))
        /\ RLe(Zero, py_nsa(s))
        /\ py_nla(s) = RMul(Pct(s.nlaPctOfPublic), publicArea(s))
        /\ RLe(py_nla(s), publicArea(s))

\* what one custom cost item adds, by its kind
ItemCost(state, i) ==
    CASE i.kind = "per_sqm" -> RMul(i.rate, totalCFA(state))
      [] i.kind = "per_car_conv" -> RMul(i.rate, totalConvCars(state))
      [] i.kind = "per_car_auto" -> RMul(i.rate, totalAutoCars(state))
      [] OTHER -> i.rate

RECURSIVE ItemCosts(_, _)
ItemCosts(state, items) ==
    IF items = <<>> THEN Zero
    ELSE RAdd(ItemCost(state, Head(items)), ItemCosts(state, Tail(items)))

C22_RuleTableDefaults ==
    (app = "fn" /\ call.done) =>
        /\ call.fn \in {"suggestedOSR", "suggested_osr"} =>
              /\ call.out.t = "num"
              /\ call.arg = "Housing" => call.out = R(30)
              /\ call.arg \in {"Hi-Rise", "Low-Rise", "Hotel"} => call.out = R(10)
              /\ call.arg \in {"Public Building", "Office Building", "Warehouse"}
                    => call.out = R(15)
        /\ call.fn \in {"suggestedGreenPct", "suggested_green"} =>
              /\ call.out.t = "num"
              /\ call.arg \in {"Hi-Rise", "Low-Rise"} => call.out = R(50)
              /\ call.arg \in {"Housing", "Public Building", "Office Building",
                               "Hotel", "Warehouse"} => call.out = R(40)

\* v brought into [0, 100]
IntoPercent(v) == IF RLt(v, Zero) THEN Zero ELSE IF RLt(Hundred, v) THEN Hundred ELSE v

\* an edit of a field other than the building type, the OSR and the green share
OtherFieldEdit ==
    \/ \E f \in Max0Fields : \E v \in Typed(f) : SetMax0(f, v)
    \/ \E f \in Max1Fields : \E v \in Typed(f) : SetMax1(f, v)
    \/ \E v \in Typed("mainPlatePct") : SetPct("mainPlatePct", v)
    \/ \E f \in CircFields : \E v \in Typed(f) : SetCirc(f, v)
    \/ \E v \in Typed("far") : SetFar(v)
    \/ \E mode \in {"abs", "pct"} : SelectMainPlateMode(mode)
    \/ \E value \in {"true", "false"} : SelectCountParkingInFAR(value)
    \/ \E value \in {"true", "false"} : SelectCountBasementInFAR(value)
    \/ \E c \in 0..MaxClock : AddCustomCost(c)
    \/ \E j \in 1..MaxEdits : \E name \in TypedName : EditCustomCostName(j, name)
    \/ \E j \in 1..MaxEdits : \E kind \in CostKinds : EditCustomCostKind(j, kind)
    \/ \E j \in 1..MaxEdits : \E rate \in TypedRate : EditCustomCostRate(j, rate)
    \/ \E j \in 1..MaxEdits : RemoveCustomCost(j)

\* C23: selecting a building type sets bType and re-suggests osr and greenPctOfOSR in
\* one update; an edit of the OSR or Green widget sets that field to the entered value
\* clamped into [0, 100]; an edit of any other field leaves both as they were.
C23_SuggestionNotLocked ==
    [][app = "react" =>
       /\ \A i \in 1..Len(BUILDING_TYPES) :
             \/ /\ scenario'.bType = Str(BUILDING_TYPES[i])
                /\ scenario'.osr = R(suggestedOSR(BUILDING_TYPES[i]))
                /\ scenario'.greenPctOfOSR = R(suggestedGreenPct(BUILDING_TYPES[i]))
             \/ ~SelectBType(BUILDING_TYPES[i])
       /\ \A v \in Typed("osr") :
             \/ /\ scenario'.osr = IntoPercent(v)
                /\ scenario'.greenPctOfOSR = scenario.greenPctOfOSR
                /\ scenario'.bType = scenario.bType
             \/ ~SetPct("osr", v)
       /\ \A v \in Typed("greenPctOfOSR") :
             \/ /\ scenario'.greenPctOfOSR = IntoPercent(v)
                /\ scenario'.osr = scenario.osr
                /\ scenario'.bType = scenario.bType
             \/ ~SetPct("greenPctOfOSR", v)
       /\ \/ /\ scenario'.osr = scenario.osr
             /\ scenario'.greenPctOfOSR = scenario.greenPctOfOSR
          \/ ~OtherFieldEdit]_vars

\* Hi-Rise selected, then the OSR overridden above 100 and clamped
C23_Witness ==
    /\ app = "react"
    /\ scenario.bType = Str("Hi-Rise")
    /\ scenario.osr = R(100)
    /\ scenario.greenPctOfOSR = R(50)

\* the check behind a banner entry fails in the scenario
CheckFails(entry) ==
    CASE entry = "far" -> ~farOk(scenario)
      [] entry = "height" -> ~heightOk(scenario)
      [] entry = "osr" -> ~osrOk(scenario)
      [] entry = "green" -> ~greenPctOk(scenario)
      [] entry = "budget" -> ~budgetOk(scenario)

\* C24: the warning list is the sub-sequence of [FAR, height, OSR, green, budget] made
\* of the checks that fail; the OSR and green entries appear only for a building type
\* that defines the minimum; the banner is shown exactly when the list is non-empty.
C24_DesignCheckBanner ==
    app = "react" =>
        LET list == warnings(scenario)
            has(entry) == \E i \in DOMAIN list : list[i] = entry
        IN  /\ bannerShown(scenario) <=> list # <<>>
            /\ has("osr") => scenario.bType.str \in {"Housing", "Hi-Rise", "Low-Rise", "Hotel"}
            /\ has("green") => scenario.bType.str \in {"Hi-Rise", "Low-Rise", "Hotel"}
            /\ list = SelectSeq(<<"far", "height", "osr", "green", "budget">>, CheckFails)

\* the OSR check fails together with another one
C24_Witness ==
    /\ app = "react"
    /\ Len(warnings(scenario)) >= 2
    /\ \E i \in DOMAIN warnings(scenario) : warnings(scenario)[i] = "osr"
    /\ bannerShown(scenario)

\* a - b - c, floored at 0
Remaining(a, b, c) ==
    LET left == RSub(RSub(a, b), c) IN IF RLt(left, Zero) THEN Zero ELSE left

OpenLotEdit ==
    \/ \E v \in Typed("openLotArea") : SetMax0("openLotArea", v)
    \/ \E v \in Typed("openLotBay") : SetMax1("openLotBay", v)
    \/ \E v \in Typed("openLotCircPct") : SetCirc("openLotCircPct", v)

\* the derived figures that do not read the open lot
Envelope(state) ==
    <<mainCFA_AG(state), mainCFA_BG(state), mainCFA(state),
      parkConCFA_AG(state), parkConCFA_BG(state), parkConCFA(state),
      parkAutoCFA_AG(state), parkAutoCFA_BG(state), parkAutoCFA(state),
      totalCFA(state), gfa(state), nla(state), nsa(state),
      farCounted(state), farOk(state), estHeight(state), heightOk(state),
      maxGFA(state), buildableArea(state), mainPlateAbs(state),
      openSpaceArea(state), greenArea(state), osrOk(state), greenPctOk(state),
      convCarsPerFloor(state), autoCarsPerFloor(state),
      totalConvCars(state), totalAutoCars(state),
      constructionCost(state), greenCost(state), customCostTotal(state)>>

NonNegativeFields ==
    {"siteArea", "mainFloorsAG", "mainFloorsBG", "parkingConFloorsAG",
     "parkingConFloorsBG", "parkingAutoFloorsAG", "parkingAutoFloorsBG",
     "mainFloorPlate", "parkingConPlate", "parkingAutoPlate", "costArchPerSqm",
     "costStructPerSqm", "costMEPPerSqm", "costGreenPerSqm", "costConventionalPerCar",
     "costAutoPerCar", "costOpenLotPerCar", "budget"}

Within(state, f, lo, hi) == state[f].t = "num" /\ RLe(lo, state[f]) /\ RLe(state[f], hi)

\* C27: in every state reachable from the default scenario by widget edits and CSV
\* imports, siteArea >= 0, far is in [1, 10], osr and greenPctOfOSR are in [0, 100], the
\* circulation fractions in [0, 1], the three bay areas >= 1, and all floor counts,
\* plates, cost rates and the budget >= 0.
C27_ScenarioInvariants ==
    app = "react" =>
        /\ Within(scenario, "far", R(1), R(10))
        /\ Within(scenario, "osr", Zero, Hundred)
        /\ Within(scenario, "greenPctOfOSR", Zero, Hundred)
        /\ \A f \in {"circConvPct", "circAutoPct", "openLotCircPct"} :
              Within(scenario, f, Zero, One)
        /\ \A f \in {"bayConv", "bayAuto", "openLotBay"} :
              scenario[f].t = "num" /\ RLe(One, scenario[f])
        /\ \A f \in NonNegativeFields : scenario[f].t = "num" /\ RLe(Zero, scenario[f])

C29_CustomCostIdsDistinct ==
    app = "react" =>
        LET items == scenario.customCosts.items
        IN  \A i, j \in DOMAIN items : items[i].id = items[j].id => i = j

\* The ids of a unit type list, in list order.
IdsOf(units) == [i \in DOMAIN units |-> units[i].id]

IdSet(units) == {units[i].id : i \in DOMAIN units}

\* The unit types of a list whose id is in a set, in list order.
RECURSIVE KeptUnits(_, _)
KeptUnits(units, ids) ==
    IF units = <<>> THEN <<>>
    ELSE (IF Head(units).id \in ids THEN <<Head(units)>> ELSE <<>>)
         \o KeptUnits(Tail(units), ids)

\* The counts of the unit types whose id is in a set, added up.
RECURSIVE CountOfIds(_, _)
CountOfIds(units, ids) ==
    IF units = <<>> THEN 0
    ELSE (IF Head(units).id \in ids THEN RTrunc(Head(units).count) ELSE 0)
         + CountOfIds(Tail(units), ids)

UnitIdsSound ==
    LET units == session.unit_types
    IN  /\ \A i, j \in DOMAIN units : units[i].id = units[j].id => i = j
        /\ \A i \in DOMAIN units : units[i].id <= session.id_seed
        /\ total_units(units) = CountOfIds(units, IdSet(units))

UnitStepSound ==
    LET old == session.unit_types
        new == session'.unit_types
        gone == IdSet(old) \ IdSet(new)
        fresh == IdSet(new) \ IdSet(old)
    IN  /\ session'.id_seed >= session.id_seed
        /\ \A id \in fresh : id > session.id_seed
        /\ Cardinality(gone) <= 1 /\ Cardinality(fresh) <= 1
        /\ fresh = {} => new = KeptUnits(old, IdSet(old) \ gone)
        /\ fresh # {} => /\ gone = {}
                         /\ SubSeq(new, 1, Len(old)) = old
                         /\ Len(new) = Len(old) + 1
        /\ total_units(new) = total_units(old) - CountOfIds(old, gone)

\* C30: starting from the three initial unit types (ids 1, 2, 3, id_seed 3),
\* under any sequence of Add Unit Type and Remove presses the ids of the list
\* are pairwise distinct, id_seed never decreases and is at least every id in
\* the list, a new id is above every id handed out before (so a removed id is
\* never given again), Remove deletes exactly the unit type whose button was
\* pressed and keeps the order of the others, and total_units is the sum of
\* count over the list that remains.
C30_UnitTypeIdentities == []UnitIdsSound /\ [][UnitStepSound]_vars

\* a unit type was removed and a later one added: the removed id 3 is not reused
C30_Witness ==
    /\ app = "streamlit"
    /\ IdsOf(session.unit_types) = <<1, 2, 4>>
    /\ session.id_seed = 4


====
